---- MODULE Spec2Model ----
(***************************************************************************)
(* Model of the matching and ranking engine of the AI product intelligence *)
(* tool: the embedding cache of AIProductProcessor, the catalog ranking    *)
(* find_similar_products, the live-listing path of GoogleShoppingService   *)
(* and the combined search handler.                                        *)
(*                                                                         *)
(* Numbers: scores are integers in thousandths (Scale), weights are        *)
(* integers in hundredths, prices are whole currency units.  Texts are     *)
(* strings; Len, SubSeq and \o act on them character by character.         *)
(*                                                                         *)
(* Scheduling: the handlers are coroutines on one event loop.  A request   *)
(* loses control only at an awaited provider call; the model lets requests *)
(* interleave between any two calls of get_product_embedding, which        *)
(* includes every interleaving of the event loop.                          *)
(***************************************************************************)
EXTENDS Integers, Sequences, FiniteSets, TLC

\* ------------------------------------------------------------------ bounds
NumReq == 2
MaxStarted == 2
MaxProviderCalls == 3

\* --------------------------------------------------------------- constants
Scale == 1000
None == "<None>"

VARIABLES
  products,           \* product_db.products, the catalog
  embeddings_cache,   \* AIProductProcessor.embeddings_cache
  req,                \* the request in each slot: arguments, locals, position
  provider_calls,     \* history: embedding-provider invocations per text
  provider_ok,        \* history: invocations per text that returned a vector
  started,            \* history: number of requests started
  call,               \* a function applied on its own: name, arguments, result
  provider            \* the vector of each text, when the provider has one

vars == <<products, embeddings_cache, req, provider_calls, provider_ok, started, call, provider>>

Requests == 1..NumReq

\* ------------------------------------------------------------ small helpers
Min(a, b) == IF a <= b THEN a ELSE b
Max(a, b) == IF a >= b THEN a ELSE b

\* Python truthiness of an Optional[str]
Truthy(s) == s # None /\ s # ""

RECURSIVE Join(_, _)
\* sep.join(parts)
Join(parts, sep) ==
  IF parts = <<>> THEN ""
  ELSE IF Len(parts) = 1 THEN parts[1]
  ELSE parts[1] \o sep \o Join(Tail(parts), sep)

\* seq[:k] of Python, k may be negative
PySlice(seq, k) ==
  IF k >= 0 THEN SubSeq(seq, 1, Min(k, Len(seq)))
  ELSE SubSeq(seq, 1, Max(0, Len(seq) + k))

\* a local variable: Assigned({body : v \in {value}}) computes value once and
\* evaluates body with v naming the result
Assigned(values) == CHOOSE r \in values : TRUE

RECURSIVE SeqMax(_)
SeqMax(s) == IF Len(s) = 1 THEN s[1] ELSE Max(s[1], SeqMax(Tail(s)))
RECURSIVE SeqMin(_)
SeqMin(s) == IF Len(s) = 1 THEN s[1] ELSE Min(s[1], SeqMin(Tail(s)))

\* ------------------------------------------------------------- the catalog
P1 == [id |-> 1, name |-> "Glow 50ft", price |-> 30, image_url |-> "u1",
       category |-> "lighting", product_type |-> "string lights",
       brand |-> "Brightown", color |-> "warm white", size |-> "50 ft",
       material |-> None, style |-> None,
       key_features |-> <<"dimmable">>,
       specifications |-> <<<<"length", "50 ft">>>>,
       description |-> "patio lights"]
P2 == [id |-> 2, name |-> "Solar Set", price |-> 20, image_url |-> "u2",
       category |-> "Lighting", product_type |-> "string lights",
       brand |-> None, color |-> "multicolor", size |-> None,
       material |-> "copper", style |-> None,
       key_features |-> <<>>,
       specifications |-> <<>>,
       description |-> ""]
P3 == [id |-> 3, name |-> "Breeze 52", price |-> 40, image_url |-> "u3",
       category |-> "fans", product_type |-> "ceiling fan",
       brand |-> "Hunter", color |-> None, size |-> "52 inch",
       material |-> None, style |-> "modern",
       key_features |-> <<"remote", "quiet">>,
       specifications |-> <<>>,
       description |-> "quiet fan"]

Catalogs == {<<>>, <<P1, P2>>, <<P3, P1>>}

\* ------------------------------------------------- extracted feature sets
F1 == [brand |-> "Brightown", model |-> None, product_type |-> "string lights",
       color |-> "warm white", size |-> None, material |-> None,
       style |-> None, category |-> "lighting",
       key_features |-> <<>>, specifications |-> <<>>]
F2 == [brand |-> None, model |-> None, product_type |-> "ceiling fan",
       color |-> None, size |-> "52 inch", material |-> None,
       style |-> "modern", category |-> "fans",
       key_features |-> <<"remote">>,
       specifications |-> <<<<"Power Source", "corded">>>>]

\* features from which no search query can be built
F3 == [brand |-> None, model |-> None, product_type |-> "",
       color |-> "White", size |-> None, material |-> None,
       style |-> None, category |-> "lighting",
       key_features |-> <<>>, specifications |-> <<>>]

FeatureInputs == {F1, F2, F3}

\* --------------------------------------------------------- text synthesizer
RECURSIVE SpecParts(_)
\* [f"{key}: {value}" for key, value in specifications.items()]
SpecParts(specs) ==
  IF specs = <<>> THEN <<>>
  ELSE <<specs[1][1] \o ": " \o specs[1][2]>> \o SpecParts(Tail(specs))

OptPart(label, v) == IF Truthy(v) THEN <<label \o v>> ELSE <<>>

create_product_text(product) ==
  Join(<<"Product: " \o product.name,
         "Category: " \o product.category,
         "Type: " \o product.product_type>>
       \o OptPart("Brand: ", product.brand)
       \o OptPart("Color: ", product.color)
       \o OptPart("Size: ", product.size)
       \o OptPart("Material: ", product.material)
       \o OptPart("Style: ", product.style)
       \o (IF product.key_features # <<>>
           THEN <<"Features: " \o Join(product.key_features, ", ")>> ELSE <<>>)
       \o (IF product.specifications # <<>>
           THEN <<"Specifications: " \o Join(SpecParts(product.specifications), ", ")>>
           ELSE <<>>)
       \o OptPart("Description: ", product.description),
       " ")

create_features_text(features) ==
  Join(<<"Product: " \o features.product_type,
         "Category: " \o features.category>>
       \o OptPart("Brand: ", features.brand)
       \o OptPart("Color: ", features.color)
       \o OptPart("Size: ", features.size)
       \o OptPart("Material: ", features.material)
       \o OptPart("Style: ", features.style)
       \o (IF features.key_features # <<>>
           THEN <<"Features: " \o Join(features.key_features, ", ")>> ELSE <<>>)
       \o (IF features.specifications # <<>>
           THEN <<"Specifications: " \o Join(SpecParts(features.specifications), ", ")>>
           ELSE <<>>),
       " ")

\* every text the program can hand to get_product_embedding
Texts ==
  {create_features_text(f) : f \in FeatureInputs}
  \cup {create_product_text(p) : p \in {P1, P2, P3}}

\* ------------------------------------------------------ embedding provider
\* Vectors the provider may return (integer coordinates, integer norms).
Vecs == {<<3, 4>>, <<5, 0>>}

\* An embedding as the program holds it: vec is the vector; text is a ghost
\* tag naming the text the provider was asked about when it produced vec.
Embedding(t, v) == [text |-> t, vec |-> v]
NoEmbedding == [text |-> None, vec |-> <<>>]

\* ------------------------------------------------- semantic similarity
Dot(u, v) == u[1] * v[1] + u[2] * v[2]
ISqrt(n) == CHOOSE k \in 0..n : k * k <= n /\ (k + 1) * (k + 1) > n
Norm(u) == ISqrt(Dot(u, u))

\* sklearn cosine_similarity of two rows, in thousandths
cosine_similarity(u, v) == (Dot(u, v) * Scale) \div (Norm(u) * Norm(v))

\* ------------------------------------------------------------ price scorer
PowGrid == 10
\* round(1000 * (k / 10) ** 0.7) for k = 0..10
Pow07Table == <<0, 200, 324, 431, 527, 616, 699, 779, 855, 929, 1000>>
\* (n / d) ** 0.7 in thousandths, n / d taken down to the grid
Pow07(n, d) == Pow07Table[((n * PowGrid) \div d) + 1]

\* Variant: the normalized price is not inverted.
price_score_rising(product_price, all_prices) ==
  IF all_prices = <<>> THEN 500
  ELSE LET max_price == SeqMax(all_prices)
           min_price == SeqMin(all_prices)
           price_range == max_price - min_price
       IN IF price_range = 0 THEN Scale
          ELSE 500 + (Pow07(product_price - min_price, price_range) * 5) \div 10

\* Variant: equal prices get the neutral default.
price_score_flat(product_price, all_prices) ==
  IF all_prices = <<>> THEN 500
  ELSE LET max_price == SeqMax(all_prices)
           min_price == SeqMin(all_prices)
           price_range == max_price - min_price
       IN IF price_range = 0 THEN 500
          ELSE Scale - (Pow07(product_price - min_price, price_range) * 5) \div 10

calculate_price_score(product_price, all_prices) ==
  IF all_prices = <<>> THEN 500
  ELSE LET max_price == SeqMax(all_prices)
           min_price == SeqMin(all_prices)
           price_range == max_price - min_price
       IN IF price_range = 0 THEN Scale
          ELSE Scale - (Pow07(product_price - min_price, price_range) * 5) \div 10

\* ---------------------------------------------------------- result composer
RECURSIVE InsertDescUnstable(_, _, _)
\* Variant: x goes before the elements whose key equals its own.
InsertDescUnstable(sorted, x, key) ==
  IF sorted = <<>> THEN <<x>>
  ELSE IF sorted[1][key] > x[key]
       THEN <<sorted[1]>> \o InsertDescUnstable(Tail(sorted), x, key)
       ELSE <<x>> \o sorted

RECURSIVE InsertDesc(_, _, _)
\* x goes behind every element whose key is at least its own
InsertDesc(sorted, x, key) ==
  IF sorted = <<>> THEN <<x>>
  ELSE IF sorted[1][key] >= x[key]
       THEN <<sorted[1]>> \o InsertDesc(Tail(sorted), x, key)
       ELSE <<x>> \o sorted

RECURSIVE SortDesc(_, _)
\* list.sort(key=lambda x: x[key], reverse=True): stable, descending
SortDesc(seq, key) ==
  IF seq = <<>> THEN <<>>
  ELSE InsertDesc(SortDesc(SubSeq(seq, 1, Len(seq) - 1), key), seq[Len(seq)], key)

\* str.lower() on the category names of the model
LowerCategory(c) ==
  CASE c = "Lighting" -> "lighting"
    [] c = "LIGHTING" -> "lighting"
    [] c = "Fans" -> "fans"
    [] OTHER -> c

\* Variant: the filter is not applied.
FilterCategoryIgnored(all_products, category_filter) == all_products

\* [p for p in all_products if p['category'].lower() == category_filter.lower()]
FilterCategory(all_products, category_filter) ==
  IF Truthy(category_filter)
  THEN SelectSeq(all_products,
                 LAMBDA p : LowerCategory(p.category) = LowerCategory(category_filter))
  ELSE all_products

Prices(all_products) == [i \in 1..Len(all_products) |-> all_products[i].price]

matched_product(product, similarity_score, price_score, combined_score) ==
  [id |-> product.id, name |-> product.name, price |-> product.price,
   image_url |-> product.image_url, category |-> product.category,
   product_type |-> product.product_type, brand |-> product.brand,
   color |-> product.color, size |-> product.size,
   material |-> product.material, style |-> product.style,
   key_features |-> product.key_features,
   specifications |-> product.specifications,
   description |-> product.description,
   similarity_score |-> similarity_score,
   price_score |-> price_score,
   combined_score |-> combined_score]

\* lines 350-389 of find_similar_products: one scored record per product
ScoreProducts(all_products, input_embedding, product_embeddings, price_weight, similarity_weight) ==
  LET all_prices == Prices(all_products)
  IN [i \in 1..Len(all_products) |->
        LET similarity_score ==
              cosine_similarity(input_embedding.vec, product_embeddings[i].vec)
            price_score == calculate_price_score(all_products[i].price, all_prices)
        IN matched_product(all_products[i], similarity_score, price_score,
                           similarity_score * similarity_weight
                             + price_score * price_weight)]

\* lines 391-395: sort by combined score, keep the first max_results
RankProducts(all_products, input_embedding, product_embeddings, max_results, price_weight, similarity_weight) ==
  PySlice(SortDesc(ScoreProducts(all_products, input_embedding, product_embeddings,
                                 price_weight, similarity_weight),
                   "combined_score"),
          max_results)

\* ------------------------------------------------------------------ strings
Char(s, i) == SubSeq(s, i, i)
UpperChars == "ABCDEFGHIJKLMNOPQRSTUVWXYZ"
LowerChars == "abcdefghijklmnopqrstuvwxyz"
DigitChars == "0123456789"

IndexIn(alphabet, c) ==
  IF \E i \in 1..Len(alphabet) : Char(alphabet, i) = c
  THEN CHOOSE i \in 1..Len(alphabet) : Char(alphabet, i) = c
  ELSE 0

LowerChar(c) ==
  LET i == IndexIn(UpperChars, c) IN IF i = 0 THEN c ELSE Char(LowerChars, i)

RECURSIVE Lower(_)
\* str.lower()
Lower(s) == IF s = "" THEN "" ELSE LowerChar(Char(s, 1)) \o Lower(SubSeq(s, 2, Len(s)))

IsDigit(c) == IndexIn(DigitChars, c) # 0
IsSpace(c) == c = " "
\* \w of the regular expressions
IsWordChar(c) ==
  IndexIn(LowerChars, c) # 0 \/ IndexIn(UpperChars, c) # 0 \/ IsDigit(c) \/ c = "_"

\* a in b
IsSubstr(a, b) ==
  \E i \in 1..(Len(b) - Len(a) + 1) : SubSeq(b, i, i + Len(a) - 1) = a

RECURSIVE CommonLen(_, _, _, _, _, _)
\* length of the common run of a[i..ahi] and b[j..bhi]
CommonLen(a, i, ahi, b, j, bhi) ==
  IF i > ahi \/ j > bhi \/ Char(a, i) # Char(b, j) THEN 0
  ELSE 1 + CommonLen(a, i + 1, ahi, b, j + 1, bhi)

\* SequenceMatcher.find_longest_match on a[alo..ahi], b[blo..bhi]: the longest
\* block, of those the one earliest in a, of those the one earliest in b
find_longest_match(a, alo, ahi, b, blo, bhi) ==
  Assigned({
         CHOOSE m \in blocks :
           \A n \in blocks :
             \/ m[3] > n[3]
             \/ m[3] = n[3] /\ m[1] < n[1]
             \/ m[3] = n[3] /\ m[1] = n[1] /\ m[2] <= n[2] : blocks \in {{<<i, j, CommonLen(a, i, ahi, b, j, bhi)>> : i \in alo..ahi, j \in blo..bhi}}})

RECURSIVE MatchedChars(_, _, _, _, _, _)
\* total size of SequenceMatcher.get_matching_blocks
MatchedChars(a, alo, ahi, b, blo, bhi) ==
  IF alo > ahi \/ blo > bhi THEN 0
  ELSE Assigned({
         IF m[3] = 0 THEN 0
         ELSE m[3]
              + MatchedChars(a, alo, m[1] - 1, b, blo, m[2] - 1)
              + MatchedChars(a, m[1] + m[3], ahi, b, m[2] + m[3], bhi) : m \in {find_longest_match(a, alo, ahi, b, blo, bhi)}})

\* SequenceMatcher(None, str1.lower(), str2.lower()).ratio() as <<num, den>>
similarity_score(str1, str2) ==
  Assigned({
    IF Len(ab[1]) + Len(ab[2]) = 0 THEN <<1, 1>>
    ELSE <<2 * MatchedChars(ab[1], 1, Len(ab[1]), ab[2], 1, Len(ab[2])),
           Len(ab[1]) + Len(ab[2])>> : ab \in {<<Lower(str1), Lower(str2)>>}})

\* ------------------------------------------------------ regular expressions
\* \b in front of position p (1..Len(s)+1)
BoundaryAt(s, p) ==
  LET before == p > 1 /\ IsWordChar(Char(s, p - 1))
      after == p <= Len(s) /\ IsWordChar(Char(s, p))
  IN before # after

RECURSIVE DigitsEnd(_, _)
\* first position at or after i that holds no digit
DigitsEnd(s, i) == IF i <= Len(s) /\ IsDigit(Char(s, i)) THEN DigitsEnd(s, i + 1) ELSE i
RECURSIVE SpacesEnd(_, _)
SpacesEnd(s, i) == IF i <= Len(s) /\ IsSpace(Char(s, i)) THEN SpacesEnd(s, i + 1) ELSE i

RECURSIVE ParseNat(_)
\* int() of a string of digits
ParseNat(s) ==
  IF s = "" THEN 0
  ELSE ParseNat(SubSeq(s, 1, Len(s) - 1)) * 10 + (IndexIn(DigitChars, Char(s, Len(s))) - 1)

StartsAt(s, i, u) == i + Len(u) - 1 <= Len(s) /\ SubSeq(s, i, i + Len(u) - 1) = u

\* the alternatives of size_pattern, in the order the pattern tries them
SizeUnits == <<"inch", "in", "ft", "feet", "cm", "mm", "\"", "'">>

\* size_pattern = \b\d+[\s]*(?:inch|in|ft|feet|cm|mm|"|')\b matched at i:
\* the position after the match, or 0
MatchSizeAt(s, i) ==
  IF i <= Len(s) /\ IsDigit(Char(s, i)) /\ BoundaryAt(s, i)
  THEN Assigned({
         Assigned({
                IF ok = {} THEN 0
                ELSE u0 + Len(SizeUnits[CHOOSE k \in ok : \A j \in ok : k <= j]) : ok \in {{k \in 1..Len(SizeUnits) :
                 StartsAt(s, u0, SizeUnits[k]) /\ BoundaryAt(s, u0 + Len(SizeUnits[k]))}}}) : u0 \in {SpacesEnd(s, DigitsEnd(s, i))}})
  ELSE 0
RECURSIVE FindSizes(_, _)
\* re.findall(size_pattern, s) from position i on
FindSizes(s, i) ==
  IF i > Len(s) THEN <<>>
  ELSE Assigned({
         IF e > 0 THEN <<SubSeq(s, i, e - 1)>> \o FindSizes(s, e)
         ELSE FindSizes(s, i + 1) : e \in {MatchSizeAt(s, i)}})

RECURSIVE NormalizeSpaces(_)
\* re.sub(r'\s+', ' ', query).strip()
NormalizeSpaces(s) ==
  IF s = "" THEN ""
  ELSE IF IsSpace(Char(s, 1))
       THEN NormalizeSpaces(SubSeq(s, 2, Len(s)))
       ELSE Assigned({
                   SubSeq(s, 1, e)
                   \o Assigned({IF rest = "" THEN "" ELSE " " \o rest : rest \in {NormalizeSpaces(SubSeq(s, e + 1, Len(s)))}}) : e \in {CHOOSE k \in 1..Len(s) :
                   /\ \A j \in 1..k : ~IsSpace(Char(s, j))
                   /\ (k = Len(s) \/ IsSpace(Char(s, k + 1)))}})

\* s.rsplit(' ', 1)[0]
RSplitHead(s) ==
  IF \E i \in 1..Len(s) : Char(s, i) = " "
  THEN SubSeq(s, 1, (CHOOSE i \in 1..Len(s) :
                       Char(s, i) = " " /\ \A j \in (i + 1)..Len(s) : Char(s, j) # " ") - 1)
  ELSE s

\* ------------------------------------------------------------ live listings
Absent == "<Absent>"
\* dict.get(key, default) on a field that may be missing
Get(v, default) == IF v = Absent THEN default ELSE v

InLower(v, words) == Lower(v) \in words

RECURSIVE SpecQueryParts(_)
\* lines 48-53: the values of all specifications that are not generic
SpecQueryParts(specs) ==
  IF specs = <<>> THEN <<>>
  ELSE (IF Truthy(specs[1][2]) /\ NormalizeSpaces(specs[1][2]) # ""
           /\ ~InLower(specs[1][2], {"standard", "regular", "basic", "normal",
                                      "default", "yes", "no"})
        THEN <<specs[1][2]>> ELSE <<>>)
       \o SpecQueryParts(Tail(specs))

RECURSIVE FeatureQueryParts(_)
\* lines 56-59 over the features handed in
FeatureQueryParts(fs) ==
  IF fs = <<>> THEN <<>>
  ELSE (IF Len(fs[1]) > 3 /\ ~InLower(fs[1], {"durable", "quality", "good"})
        THEN <<fs[1]>> ELSE <<>>)
       \o FeatureQueryParts(Tail(fs))

MaxQueryLen == 200

create_search_query(features) ==
  Assigned({
         IF Len(query) > MaxQueryLen THEN RSplitHead(SubSeq(query, 1, MaxQueryLen))
         ELSE query : query \in {NormalizeSpaces(Join(
         (IF Truthy(features.product_type) THEN <<features.product_type>> ELSE <<>>)
         \o (IF Truthy(features.brand) THEN <<features.brand>> ELSE <<>>)
         \o (IF Truthy(features.color)
                /\ ~InLower(features.color, {"black", "white", "clear", "transparent"})
             THEN <<features.color>> ELSE <<>>)
         \o (IF Truthy(features.size) THEN <<features.size>> ELSE <<>>)
         \o (IF Truthy(features.material)
                /\ ~InLower(features.material, {"plastic", "metal"})
             THEN <<features.material>> ELSE <<>>)
         \o (IF Truthy(features.style)
                /\ ~InLower(features.style, {"standard", "regular", "basic"})
             THEN <<features.style>> ELSE <<>>)
         \o SpecQueryParts(features.specifications)
         \o FeatureQueryParts(PySlice(features.key_features, 3)),
         " "))}})

\* matching_criteria.get(key, True); None stands for the default criteria
NoCriteria == [none |-> TRUE]
\* Variant: only a flag that is written down and true is on.
CriterionOnStrict(matching_criteria, key) ==
  key \in DOMAIN matching_criteria /\ matching_criteria[key]

\* matching_criteria.get(key, True)
CriterionOn(matching_criteria, key) ==
  IF key \in DOMAIN matching_criteria THEN matching_criteria[key] ELSE TRUE

WeightTitle == 30
WeightBrand == 25
WeightColor == 10
WeightSize == 10
WeightSpecs == 25

important_specs ==
  <<"Light Source Type", "Power Source", "Special Feature", "Light Color", "Theme">>

\* extracted_features.specifications[spec_key], Absent when the key is missing
SpecValue(specs, spec_key) ==
  IF \E i \in 1..Len(specs) : specs[i][1] = spec_key
  THEN specs[CHOOSE i \in 1..Len(specs) : specs[i][1] = spec_key][2]
  ELSE Absent

\* lines 142-148: the important specifications that count
CountedSpecs(specs) ==
  {k \in 1..Len(important_specs) :
     LET v == SpecValue(specs, important_specs[k])
     IN v # Absent /\ Truthy(v) /\ Len(v) > 2}

\* lines 116-129
SizeScore(size, title) ==
  Assigned({
    IF \E i \in 1..Len(sizes[1]), j \in 1..Len(sizes[2]) :
         Assigned({s[1] * 10 > 8 * s[2] : s \in {similarity_score(sizes[1][i], sizes[2][j])}})
    THEN 1 ELSE 0 : sizes \in {<<FindSizes(Lower(size), 1), FindSizes(Lower(title), 1)>>}})

\* the conditions that guard the five parts of the score (lines 93, 102,
\* 108, 114, 135)
TitleOn(extracted_features, shopping_result, matching_criteria) ==
  CriterionOn(matching_criteria, "titleMatching") /\ shopping_result.title # Absent
BrandOn(extracted_features, shopping_result, matching_criteria) ==
  /\ CriterionOn(matching_criteria, "brandMatching")
  /\ Truthy(extracted_features.brand) /\ shopping_result.title # Absent
ColorOn(extracted_features, shopping_result, matching_criteria) ==
  /\ CriterionOn(matching_criteria, "colorMatching")
  /\ Truthy(extracted_features.color) /\ shopping_result.title # Absent
SizeOn(extracted_features, shopping_result, matching_criteria) ==
  /\ CriterionOn(matching_criteria, "sizeMatching")
  /\ Truthy(extracted_features.size) /\ shopping_result.title # Absent
SpecsOn(extracted_features, shopping_result, matching_criteria) ==
  /\ CriterionOn(matching_criteria, "specificationsMatching")
  /\ extracted_features.specifications # <<>> /\ shopping_result.title # Absent

\* a part of the score: <<weight, num, den>>, the part's score is num / den
NoPart == <<0, 0, 1>>

\* lines 93-99
TitlePart(extracted_features, shopping_result, matching_criteria) ==
  IF TitleOn(extracted_features, shopping_result, matching_criteria)
  THEN Assigned({<<WeightTitle, title_score[1], title_score[2]>> : title_score \in {similarity_score(IF Truthy(extracted_features.product_type)
                             THEN extracted_features.product_type ELSE "",
                             shopping_result.title)}})
  ELSE NoPart

\* Variant: a missing brand counts as a miss with the full weight.
BrandPartZeroFilled(extracted_features, shopping_result, matching_criteria) ==
  IF BrandOn(extracted_features, shopping_result, matching_criteria)
  THEN <<WeightBrand,
         IF IsSubstr(Lower(extracted_features.brand), Lower(shopping_result.title))
         THEN 1 ELSE 0,
         1>>
  ELSE <<WeightBrand, 0, 1>>

\* lines 102-105
BrandPart(extracted_features, shopping_result, matching_criteria) ==
  IF BrandOn(extracted_features, shopping_result, matching_criteria)
  THEN <<WeightBrand,
         IF IsSubstr(Lower(extracted_features.brand), Lower(shopping_result.title))
         THEN 1 ELSE 0,
         1>>
  ELSE NoPart

\* Variant: the colour is looked for in the title as it is written.
ColorPartCaseSensitive(extracted_features, shopping_result, matching_criteria) ==
  IF ColorOn(extracted_features, shopping_result, matching_criteria)
  THEN <<WeightColor,
         IF IsSubstr(extracted_features.color, shopping_result.title)
         THEN 1 ELSE 0,
         1>>
  ELSE NoPart

\* lines 108-111
ColorPart(extracted_features, shopping_result, matching_criteria) ==
  IF ColorOn(extracted_features, shopping_result, matching_criteria)
  THEN <<WeightColor,
         IF IsSubstr(Lower(extracted_features.color), Lower(shopping_result.title))
         THEN 1 ELSE 0,
         1>>
  ELSE NoPart

\* lines 114-132
SizePart(extracted_features, shopping_result, matching_criteria) ==
  IF SizeOn(extracted_features, shopping_result, matching_criteria)
  THEN <<WeightSize, SizeScore(extracted_features.size, shopping_result.title), 1>>
  ELSE NoPart

\* lines 135-153: spec_score of the spec_count specifications that count
SpecsPart(extracted_features, shopping_result, matching_criteria) ==
  IF SpecsOn(extracted_features, shopping_result, matching_criteria)
  THEN Assigned({
         IF counted = {} THEN NoPart
         ELSE <<WeightSpecs,
                Cardinality({k \in counted :
                  IsSubstr(Lower(SpecValue(extracted_features.specifications,
                                           important_specs[k])),
                           Lower(shopping_result.title))}),
                Cardinality(counted)>> : counted \in {CountedSpecs(extracted_features.specifications)}})
  ELSE NoPart

RECURSIVE WeightedScore(_)
\* score of lines 98-152 as <<num, den>>: the sum of weight * num / den
WeightedScore(parts) ==
  IF parts = <<>> THEN <<0, 1>>
  ELSE Assigned({
         <<parts[1][1] * parts[1][2] * rest[2] + rest[1] * parts[1][3],
           parts[1][3] * rest[2]>> : rest \in {WeightedScore(Tail(parts))}})

RECURSIVE WeightSum(_)
\* weight_sum of lines 99-153
WeightSum(parts) == IF parts = <<>> THEN 0 ELSE parts[1][1] + WeightSum(Tail(parts))

\* a title of null makes the first part that reads it raise (.lower() of None)
FuzzyRaises(extracted_features, shopping_result, matching_criteria) ==
  /\ shopping_result.title = None
  /\ \/ TitleOn(extracted_features, shopping_result, matching_criteria)
     \/ BrandOn(extracted_features, shopping_result, matching_criteria)
     \/ ColorOn(extracted_features, shopping_result, matching_criteria)
     \/ SizeOn(extracted_features, shopping_result, matching_criteria)
     \/ /\ SpecsOn(extracted_features, shopping_result, matching_criteria)
        /\ CountedSpecs(extracted_features.specifications) # {}

\* fuzzy_match_product: [raised, num, den], the score is num / den
fuzzy_match_product(extracted_features, shopping_result, matching_criteria) ==
  IF FuzzyRaises(extracted_features, shopping_result, matching_criteria)
  THEN [raised |-> TRUE, num |-> 0, den |-> 1]
  ELSE Assigned({
              IF WeightSum(parts) > 0
              THEN Assigned({
                     [raised |-> FALSE, num |-> score[1],
                      den |-> score[2] * WeightSum(parts)] : score \in {WeightedScore(parts)}})
              ELSE [raised |-> FALSE, num |-> 0, den |-> 1]
         : parts \in {<<TitlePart(extracted_features, shopping_result, matching_criteria),
                        BrandPart(extracted_features, shopping_result, matching_criteria),
                        ColorPart(extracted_features, shopping_result, matching_criteria),
                        SizePart(extracted_features, shopping_result, matching_criteria),
                        SpecsPart(extracted_features, shopping_result, matching_criteria)>>}})

\* ---------------------------------------------------------- live listings
\* None in a numeric field
NoNumber == -1
\* prices of live listings are kept in hundredths
Cents == 100

\* what the search provider sends for one listing; thumbnail, rating,
\* reviews and shipping are copied through unread and left out
Listing(title, extracted_price, price, product_link, link, source, position) ==
  [title |-> title, extracted_price |-> extracted_price, price |-> price,
   product_link |-> product_link, link |-> link, source |-> source,
   position |-> position]

\* float() of the first match of [\d,]+\.?\d* in price_str without its
\* commas, in hundredths; NoNumber when nothing matches
ParsePrice(price_str) ==
  IF \A i \in 1..Len(price_str) : ~IsDigit(Char(price_str, i)) THEN NoNumber
  ELSE Assigned({
         Assigned({
           ParseNat(SubSeq(price_str, i, e - 1)) * Cents
           + (IF e <= Len(price_str) /\ Char(price_str, e) = "."
              THEN Assigned({IF Len(f) = 0 THEN 0
                                   ELSE IF Len(f) = 1 THEN ParseNat(f) * 10
                                   ELSE ParseNat(f) : f \in {SubSeq(price_str, e + 1,
                               Min(DigitsEnd(price_str, e + 1) - 1, e + 2))}})
              ELSE 0) : e \in {DigitsEnd(price_str, i)}}) : i \in {CHOOSE k \in 1..Len(price_str) :
              /\ IsDigit(Char(price_str, k))
              /\ \A j \in 1..(k - 1) : ~IsDigit(Char(price_str, j))}})

RECURSIVE NatToStr(_)
\* str() of a natural number
NatToStr(n) ==
  IF n < 10 THEN Char(DigitChars, n + 1)
  ELSE NatToStr(n \div 10) \o Char(DigitChars, (n % 10) + 1)

\* str() of a float price held in hundredths: 2400 is "24.0", 2499 is "24.99"
PriceStr(c) ==
  NatToStr(c \div Cents) \o "."
  \o (IF c % 10 = 0 THEN NatToStr((c % Cents) \div 10)
      ELSE NatToStr((c % Cents) \div 10) \o NatToStr(c % 10))

RECURSIVE StripCommas(_)
\* price_str.replace(',', '')
StripCommas(s) ==
  IF s = "" THEN ""
  ELSE (IF Char(s, 1) = "," THEN "" ELSE Char(s, 1)) \o StripCommas(SubSeq(s, 2, Len(s)))

extract_price(result) ==
  IF result.extracted_price # NoNumber /\ result.extracted_price # 0
  THEN result.extracted_price
  ELSE IF result.price # Absent /\ Truthy(result.price)
       THEN ParsePrice(StripCommas(result.price))
       ELSE NoNumber

\* re.search(r'(\d+)-pack', title, re.IGNORECASE)
extract_pack_quantity(title) ==
  IF title = None THEN NoNumber
  ELSE Assigned({
              IF hits = {} THEN NoNumber
              ELSE Assigned({
                     ParseNat(SubSeq(title, i, DigitsEnd(title, i) - 1)) : i \in {CHOOSE k \in hits : \A j \in hits : k <= j}}) : hits \in {{i \in 1..Len(title) :
               /\ IsDigit(Char(title, i))
               /\ StartsAt(Lower(title), DigitsEnd(title, i), "-pack")}}})

\* total_price / pack_quantity, to the hundredth below
calculate_unit_price(total_price, pack_quantity) ==
  IF pack_quantity > 0 THEN total_price \div pack_quantity ELSE total_price

\* lines 198-241, one turn of the loop: [raised, keep, item]
ProcessResult(features, result, matching_criteria) ==
  Assigned({
  Assigned({
  Assigned({
    [raised |-> m.raised,
     keep |-> ~m.raised /\ m.num * 10 > 3 * m.den,
     item |-> [title |-> Get(result.title, ""),
               price |-> price,
               unit_price |-> IF pack_quantity # NoNumber /\ pack_quantity # 0
                              THEN calculate_unit_price(price, pack_quantity)
                              ELSE NoNumber,
               pack_quantity |-> pack_quantity,
               original_price |-> IF result.extracted_price = NoNumber THEN None
                                  ELSE PriceStr(result.extracted_price),
               link |-> Get(result.product_link, Get(result.link, None)),
               product_link |-> Get(result.product_link, None),
               source |-> Get(result.source, ""),
               match_num |-> m.num, match_den |-> m.den,
               match_score |-> (m.num * Scale) \div m.den,
               position |-> IF result.position = NoNumber THEN 0
                            ELSE result.position]]
    : pack_quantity \in {IF price # NoNumber /\ price # 0 /\ result.title # Absent
                         THEN extract_pack_quantity(result.title) ELSE NoNumber}})
    : price \in {extract_price(result)}})
    : m \in {fuzzy_match_product(features, result, matching_criteria)}})

RECURSIVE ProcessResults(_, _, _)
\* lines 197-241: listings whose processing raised are skipped
ProcessResults(features, shopping_results, matching_criteria) ==
  IF shopping_results = <<>> THEN <<>>
  ELSE Assigned({IF p.keep THEN <<p.item>> ELSE <<>> : p \in {ProcessResult(features, shopping_results[1], matching_criteria)}})
       \o ProcessResults(features, Tail(shopping_results), matching_criteria)

\* x goes after every element whose match score is not below its own
InsertByMatch(sorted, x) ==
  LET k == Cardinality({i \in 1..Len(sorted) :
                          sorted[i].match_num * x.match_den
                            >= x.match_num * sorted[i].match_den})
  IN SubSeq(sorted, 1, k) \o <<x>> \o SubSeq(sorted, k + 1, Len(sorted))

RECURSIVE SortByMatch(_)
\* processed_results.sort(key=match_score, reverse=True)
SortByMatch(seq) ==
  IF seq = <<>> THEN <<>>
  ELSE Assigned({InsertByMatch(sorted, seq[Len(seq)]) : sorted \in {SortByMatch(SubSeq(seq, 1, Len(seq) - 1))}})

\* what GoogleSearch(params).get_dict() came back with
SearchResults(shopping_results) == [kind |-> "results", shopping_results |-> shopping_results]
SearchNoKey == [kind |-> "nokey", shopping_results |-> <<>>]
SearchRaised == [kind |-> "raised", shopping_results |-> <<>>]
NoOutcome == [kind |-> "none", shopping_results |-> <<>>]

\* a search that cuts the answer to max_results before it scores the listings
search_products_cut_first(features, outcome, max_results, matching_criteria) ==
  IF outcome.kind = "results"
  THEN SortByMatch(ProcessResults(features, PySlice(outcome.shopping_results, max_results),
                                  matching_criteria))
  ELSE <<>>

\* search_products once the provider call is over (lines 188-252)
search_products(features, outcome, max_results, matching_criteria) ==
  IF outcome.kind = "results"
  THEN Assigned({PySlice(SortByMatch(processed_results), max_results) : processed_results \in {ProcessResults(features, outcome.shopping_results, matching_criteria)}})
  ELSE <<>>

RECURSIVE SumSeq(_)
SumSeq(s) == IF s = <<>> THEN 0 ELSE Head(s) + SumSeq(Tail(s))
RECURSIVE SortAsc(_)
\* sorted(prices)
SortAsc(s) ==
  IF s = <<>> THEN <<>>
  ELSE Assigned({
         LET k == Cardinality({i \in 1..Len(rest) : rest[i] <= Head(s)})
         IN SubSeq(rest, 1, k) \o <<Head(s)>> \o SubSeq(rest, k + 1, Len(rest)) : rest \in {SortAsc(Tail(s))}})

RECURSIVE KnownUnitPrices(_)
\* statistics fed with the unit price of the listings sold in packs
KnownUnitPrices(results) ==
  IF results = <<>> THEN <<>>
  ELSE (IF results[1].unit_price # NoNumber THEN <<results[1].unit_price>>
        ELSE IF results[1].price # NoNumber THEN <<results[1].price>> ELSE <<>>)
       \o KnownUnitPrices(Tail(results))

RECURSIVE KnownPrices(_)
\* [r["price"] for r in results if r["price"] is not None]
KnownPrices(results) ==
  IF results = <<>> THEN <<>>
  ELSE (IF results[1].price # NoNumber THEN <<results[1].price>> ELSE <<>>)
       \o KnownPrices(Tail(results))

\* price_stats = {}
NoStats == [empty |-> TRUE]

PriceComparisonQuota == 20

\* get_price_comparison, given what the provider answers to its search
get_price_comparison(features, outcome) ==
  Assigned({
  Assigned({
     [products |-> results,
      price_stats |->
        IF results = <<>> \/ prices = <<>> THEN NoStats
        ELSE [empty |-> FALSE,
              min_price |-> SeqMin(prices),
              max_price |-> SeqMax(prices),
              avg_price |-> SumSeq(prices) \div Len(prices),
              median_price |-> SortAsc(prices)[(Len(prices) \div 2) + 1],
              price_range |-> IF Len(prices) > 1 THEN SeqMax(prices) - SeqMin(prices)
                              ELSE 0],
      total_found |-> Len(results),
      search_query |-> create_search_query(features)] : prices \in {KnownPrices(results)}}) : results \in {search_products(features, outcome, PriceComparisonQuota, NoCriteria)}})

\* ------------------------------------------------------------ the requests
\* what a caller asks for: <<features, max_results, category_filter>>
RequestInputs == {<<F1, 1, None>>, <<F1, 3, "LIGHTING">>, <<F2, 3, None>>}
\* what a live-price caller asks for:
\* <<features, max_results, price_range, include_price_stats>>
LiveInputs == {<<F1, 10, <<>>, TRUE>>, <<F1, 1, <<20, 40>>, FALSE>>, <<F3, 10, <<>>, TRUE>>}
\* what a combined-search caller asks for: <<features, include_local,
\* include_live, max_local_results, max_live_results, category_filter, price_range>>
CombinedInputs == {<<F1, TRUE, TRUE, 5, 10, None, <<>>>>,
                   <<F1, FALSE, TRUE, 5, 10, None, <<20, 40>>>>,
                   <<F2, TRUE, FALSE, 5, 10, "fans", <<>>>>}

\* listings the search provider may send
L1 == Listing("Brightown 50ft Warm White LED String Lights", 2999, "$29.99", "http://shop/1", Absent, "Amazon", 1)
L2 == Listing("Brightown String Lights 2-pack", NoNumber, "$48.00", Absent, "http://shop/2", "Walmart", 2)
L3 == Listing(None, 1500, "$15.00", "http://shop/3", Absent, "Ebay", 3)
L4 == Listing("Widget 12-pack LED bulbs", 2400, "$24.00", "http://shop/4", Absent, "Target", 4)
\* what the search provider may answer
SearchOutcomes ==
  {SearchResults(<<L4, L2, L3, L1>>), SearchResults(<<>>), SearchNoKey, SearchRaised}

\* get_price_comparison for every request and every answer of the provider
\* listings priced at nothing, at the ends of a price range and beyond it
L13 == Listing("Brightown String Lights sample", 0, "$0.00", "http://shop/13", Absent, "Amazon", 13)
L14 == Listing("Brightown String Lights 20ft", 2000, "$20.00", "http://shop/14", Absent, "Ebay", 14)
L15 == Listing("Brightown Warm White String Lights", 4000, "$40.00", "http://shop/15", Absent, "Target", 15)

MaxListings == 2
RangeListings == {L1, L2, L13, L14, L15}
\* answers of the search provider to the callers that give a price range
RangeOutcomes ==
  {SearchResults(shopping_results) :
     shopping_results \in UNION {[1..n -> RangeListings] : n \in 1..MaxListings}}

PriceData ==
  [features \in FeatureInputs |->
     [outcome \in SearchOutcomes \cup RangeOutcomes \cup {NoOutcome} |->
        get_price_comparison(features, outcome)]]

DefaultPriceWeight == 30
DefaultSimilarityWeight == 70

\* A slot with no request in it.
IdleReq ==
  [pc |-> "idle", kind |-> "none",
   features |-> F1, max_results |-> 0, category_filter |-> None,
   all_products |-> <<>>, input_embedding |-> NoEmbedding,
   product_embeddings |-> <<>>, product_text |-> None,
   gpe_calls |-> 0, ret_text |-> None, ret |-> NoEmbedding,
   fsp_status |-> "none", fsp_result |-> <<>>,
   include_local |-> FALSE, include_live |-> FALSE,
   max_live_results |-> 0, price_range |-> <<>>, include_price_stats |-> FALSE,
   search_query |-> "", live_outcome |-> [kind |-> "none", shopping_results |-> <<>>],
   local_matches |-> <<>>, live_products |-> <<>>, price_stats |-> [empty |-> TRUE],
   live_error |-> None,
   success |-> FALSE, error |-> None]

NewReq(kind, features, max_results, category_filter) ==
  [IdleReq EXCEPT !.kind = kind, !.features = features,
                  !.max_results = max_results,
                  !.category_filter = category_filter]

\* a LivePriceRequest whose features were extracted
NewLiveReq(features, max_results, price_range, include_price_stats) ==
  [IdleReq EXCEPT !.kind = "live", !.features = features, !.include_live = TRUE,
                  !.max_live_results = max_results, !.price_range = price_range,
                  !.include_price_stats = include_price_stats]

\* a CombinedSearchRequest whose features were extracted
NewCombinedReq(features, include_local, include_live, max_local_results, max_live_results, category_filter, price_range) ==
  [IdleReq EXCEPT !.kind = "combined", !.features = features,
                  !.include_local = include_local, !.include_live = include_live,
                  !.max_results = max_local_results,
                  !.category_filter = category_filter, !.price_range = price_range,
                  !.max_live_results = max_live_results,
                  !.include_price_stats = TRUE]

\* The locals of find_similar_products die with its frame.
DropLocals(q) ==
  [q EXCEPT !.all_products = <<>>, !.input_embedding = NoEmbedding,
            !.product_embeddings = <<>>, !.product_text = None]

\* LiveProduct(**product_data) raises when title, link or source is no string
IsLiveProduct(product_data) ==
  product_data.title # None /\ product_data.link # None /\ product_data.source # None

RECURSIVE FilterPriceRange(_, _)
\* [p for p in live_products if p.price and min_price <= p.price <= max_price]
FilterPriceRange(live_products, price_range) ==
  IF live_products = <<>> THEN <<>>
  ELSE (IF /\ live_products[1].price # NoNumber
           /\ live_products[1].price # 0
           /\ price_range[1] * Cents <= live_products[1].price
           /\ live_products[1].price <= price_range[2] * Cents
        THEN <<live_products[1]>> ELSE <<>>)
       \o FilterPriceRange(Tail(live_products), price_range)

\* The live part of get_live_prices (main.py lines 305-355) and of
\* search_combined (main.py lines 409-462) from the return of the provider
\* call on: get_price_comparison, the LiveProduct models, the price range,
\* the limit, the statistics, and the answer. A validation error is caught
\* by the handler, which answers success=False with nothing else.
LiveTail(q, outcome) ==
  Assigned({
  LET valid == \A i \in 1..Len(price_data.products) : IsLiveProduct(price_data.products[i])
      in_range == IF Len(q.price_range) = 2
                  THEN FilterPriceRange(price_data.products, q.price_range)
                  ELSE price_data.products
      q1 == [q EXCEPT !.pc = "done", !.live_outcome = outcome]
  IN IF valid
     THEN [q1 EXCEPT !.success = TRUE,
                     !.search_query = price_data.search_query,
                     !.live_products = PySlice(in_range, q.max_live_results),
                     !.price_stats = IF q.include_price_stats THEN price_data.price_stats
                                     ELSE NoStats]
     ELSE [q1 EXCEPT !.success = FALSE, !.live_error = "ValidationError",
                     !.local_matches = <<>>] : price_data \in {PriceData[q.features][outcome]}})

\* get_price_comparison is called (main.py lines 306 and 410): search_products
\* builds the query and returns at once when it is blank (lines 165-169),
\* otherwise the request sits in GoogleSearch(params).get_dict() (line 186)
LiveEnter(q) ==
  IF PriceData[q.features][NoOutcome].search_query = ""
  THEN LiveTail(q, NoOutcome)
  ELSE [q EXCEPT !.pc = "search"]

\* search_combined after its local part (main.py lines 408-443)
CombinedAfterLocal(q) ==
  IF q.include_live THEN LiveEnter(q)
  ELSE [q EXCEPT !.pc = "done", !.success = TRUE]

\* find_similar_products returns result to its caller (line 335 or 395);
\* match_products answers success=True with the list (lines 245-251),
\* search_combined keeps it as local_matches and goes on (main.py line 402).
FspReturned(q, result) ==
  LET q1 == [DropLocals(q) EXCEPT !.fsp_status = "returned", !.fsp_result = result]
  IN IF q.kind = "combined"
     THEN CombinedAfterLocal([q1 EXCEPT !.local_matches = result])
     ELSE [q1 EXCEPT !.pc = "done", !.success = TRUE]

\* find_similar_products re-raises (lines 397-399); match_products answers
\* success=False with no products (lines 253-264), search_combined
\* success=False with no local and no live products (main.py lines 445-462).
FspRaised(q, err) ==
  [DropLocals(q) EXCEPT !.pc = "done", !.fsp_status = "raised",
                        !.fsp_result = <<>>, !.success = FALSE, !.error = err]

\* Variant: the input text is embedded before the list is looked at.
FspEnterEmbedFirst(q, catalog) ==
  [q EXCEPT !.pc = "call", !.all_products = FilterCategory(catalog, q.category_filter),
            !.product_text = create_features_text(q.features)]

\* lines 326-338: read the catalog, filter it, leave on an empty list,
\* otherwise build the input text and go on to line 341
FspEnter(q, catalog) ==
  LET all_products == FilterCategory(catalog, q.category_filter)
  IN IF all_products = <<>> THEN FspReturned(q, <<>>)
     ELSE [q EXCEPT !.pc = "call", !.all_products = all_products,
                    !.product_text = create_features_text(q.features)]

\* get_product_embedding handed embedding e back to find_similar_products:
\* line 341 keeps it as input_embedding, line 348 appends it; after the last
\* product the ranking is computed and returned (lines 350-395).
FspAfterEmbedding(q, e) ==
  LET q1 == [q EXCEPT !.ret_text = q.product_text, !.ret = e]
  IN IF q.input_embedding = NoEmbedding
     THEN [q1 EXCEPT !.pc = "call", !.input_embedding = e,
                     !.product_text = create_product_text(q.all_products[1])]
     ELSE LET embs == Append(q.product_embeddings, e)
          IN IF Len(embs) < Len(q.all_products)
             THEN [q1 EXCEPT !.pc = "call", !.product_embeddings = embs,
                             !.product_text =
                               create_product_text(q.all_products[Len(embs) + 1])]
             ELSE FspReturned(q1,
                    RankProducts(q.all_products, q.input_embedding, embs,
                                 q.max_results, DefaultPriceWeight,
                                 DefaultSimilarityWeight))

\* ---------------------------------------------------------- embedding cache
\* Variant: the entry is stored under another text than the one asked about.
CacheInsertWrongKey(cache, product_text, embedding) ==
  LET other == CHOOSE t \in Texts : t # product_text
  IN [t \in DOMAIN cache \cup {other} |-> IF t = other THEN embedding ELSE cache[t]]

\* Variant: the vector is returned but never stored.
CacheInsertDropped(cache, product_text, embedding) == cache

\* Variant: a cache of one entry, the new entry evicts the old one.
CacheInsertEvicting(cache, product_text, embedding) ==
  [t \in {product_text} |-> embedding]

\* self.embeddings_cache[product_text] = embedding (line 217)
CacheInsert(cache, product_text, embedding) ==
  [t \in DOMAIN cache \cup {product_text} |->
     IF t = product_text THEN embedding ELSE cache[t]]

TotalProviderCalls == LET RECURSIVE Sum(_)
                          Sum(S) == IF S = {} THEN 0
                                    ELSE LET t == CHOOSE x \in S : TRUE
                                         IN provider_calls[t] + Sum(S \ {t})
                      IN Sum(Texts)

\* no function is applied on its own
NoCall == [fn |-> "none"]
\* the provider is free to answer a text with any vector, each time
AnyVector == <<>>

TypeOK ==
  /\ products \in Catalogs
  /\ DOMAIN embeddings_cache \subseteq Texts
  /\ started \in 0..MaxStarted
  /\ \A r \in Requests :
       /\ req[r].pc \in {"idle", "call", "await", "search", "done"}
       /\ req[r].kind \in {"none", "match", "live", "combined"}

\* GoogleSearch(params).get_dict() is a plain blocking call (line 186): while
\* a request sits in it the event loop runs no other coroutine
LoopFree == \A r \in Requests : req[r].pc # "search"

Init ==
  /\ products \in Catalogs
  /\ embeddings_cache = <<>>
  /\ req = [r \in Requests |-> IdleReq]
  /\ provider_calls = [t \in Texts |-> 0]
  /\ provider_ok = [t \in Texts |-> 0]
  /\ started = 0
  /\ call = NoCall
  /\ provider = AnyVector

\* match_products calls find_similar_products (main.py line 235)
StartMatch(r) ==
  /\ LoopFree
  /\ req[r].pc \in {"idle", "done"}
  /\ started < MaxStarted
  /\ \E i \in RequestInputs :
       req' = [req EXCEPT ![r] = FspEnter(NewReq("match", i[1], i[2], i[3]), products)]
  /\ started' = started + 1
  /\ UNCHANGED <<call, provider, products, embeddings_cache, provider_calls, provider_ok>>

\* get_live_prices calls get_price_comparison (main.py line 306)
StartLive(r) ==
  /\ LoopFree
  /\ req[r].pc \in {"idle", "done"}
  /\ started < MaxStarted
  /\ \E i \in LiveInputs :
       req' = [req EXCEPT ![r] = LiveEnter(NewLiveReq(i[1], i[2], i[3], i[4]))]
  /\ started' = started + 1
  /\ UNCHANGED <<call, provider, products, embeddings_cache, provider_calls, provider_ok>>

\* search_combined starts with its local part when include_local is set
\* (main.py lines 401-406)
StartCombined(r) ==
  /\ LoopFree
  /\ req[r].pc \in {"idle", "done"}
  /\ started < MaxStarted
  /\ \E i \in CombinedInputs :
       LET q == NewCombinedReq(i[1], i[2], i[3], i[4], i[5], i[6], i[7])
       IN req' = [req EXCEPT ![r] = IF q.include_local THEN FspEnter(q, products)
                                    ELSE CombinedAfterLocal(q)]
  /\ started' = started + 1
  /\ UNCHANGED <<call, provider, products, embeddings_cache, provider_calls, provider_ok>>

\* GoogleSearch(params).get_dict() comes back (line 186) and the handler runs
\* to its answer without another suspension
SearchRespond(r) ==
  /\ req[r].pc = "search"
  /\ \E outcome \in SearchOutcomes : req' = [req EXCEPT ![r] = LiveTail(req[r], outcome)]
  /\ UNCHANGED <<call, provider, products, embeddings_cache, provider_calls, provider_ok, started>>

\* Variant: a hit refreshes the entry from the provider all the same.
GpeHitRefetch(r) ==
  /\ LoopFree
  /\ req[r].pc = "call"
  /\ req[r].product_text \in DOMAIN embeddings_cache
  /\ req' = [req EXCEPT ![r].pc = "await", ![r].gpe_calls = 1]
  /\ provider_calls' = [provider_calls EXCEPT ![req[r].product_text] = @ + 1]
  /\ UNCHANGED <<call, provider, products, embeddings_cache, provider_ok, started>>

\* Variant: a hit returns an entry of the cache whatever its key.
GpeHitOtherKey(r) ==
  /\ LoopFree
  /\ req[r].pc = "call"
  /\ req[r].product_text \in DOMAIN embeddings_cache
  /\ \E t \in DOMAIN embeddings_cache :
       req' = [req EXCEPT ![r] =
                 FspAfterEmbedding([req[r] EXCEPT !.gpe_calls = 0], embeddings_cache[t])]
  /\ UNCHANGED <<call, provider, products, embeddings_cache, provider_calls, provider_ok, started>>

\* Variant: a ranking that ends sorts the catalog list itself.
GpeHitSortingCatalog(r) ==
  /\ LoopFree
  /\ req[r].pc = "call"
  /\ req[r].product_text \in DOMAIN embeddings_cache
  /\ req' = [req EXCEPT ![r] =
               FspAfterEmbedding([req[r] EXCEPT !.gpe_calls = 0],
                                 embeddings_cache[req[r].product_text])]
  /\ products' = IF req'[r].fsp_status = "returned"
                 THEN [i \in 1..Len(products) |-> products[Len(products) + 1 - i]]
                 ELSE products
  /\ UNCHANGED <<call, provider, embeddings_cache, provider_calls, provider_ok, started>>

\* get_product_embedding, lines 206-208: the text is cached
GpeHit(r) ==
  /\ LoopFree
  /\ req[r].pc = "call"
  /\ req[r].product_text \in DOMAIN embeddings_cache
  /\ req' = [req EXCEPT ![r] =
               FspAfterEmbedding([req[r] EXCEPT !.gpe_calls = 0],
                                 embeddings_cache[req[r].product_text])]
  /\ UNCHANGED <<call, provider, products, embeddings_cache, provider_calls, provider_ok, started>>

\* Variant: an empty placeholder entry marks the call in flight.
GpeMissPlaceholder(r) ==
  /\ LoopFree
  /\ req[r].pc = "call"
  /\ req[r].product_text \notin DOMAIN embeddings_cache
  /\ req' = [req EXCEPT ![r].pc = "await", ![r].gpe_calls = 1]
  /\ provider_calls' = [provider_calls EXCEPT ![req[r].product_text] = @ + 1]
  /\ embeddings_cache' = CacheInsert(embeddings_cache, req[r].product_text,
                                     Embedding(req[r].product_text, <<>>))
  /\ UNCHANGED <<call, provider, products, provider_ok, started>>

\* get_product_embedding, lines 207-213: not cached, the provider is asked
\* and the coroutine is suspended
GpeMiss(r) ==
  /\ LoopFree
  /\ req[r].pc = "call"
  /\ req[r].product_text \notin DOMAIN embeddings_cache
  /\ TotalProviderCalls < MaxProviderCalls
  /\ req' = [req EXCEPT ![r].pc = "await", ![r].gpe_calls = 1]
  /\ provider_calls' = [provider_calls EXCEPT ![req[r].product_text] = @ + 1]
  /\ UNCHANGED <<call, provider, products, embeddings_cache, provider_ok, started>>

\* lines 215-218: the provider answered with vector v
GpeRespond(r) ==
  /\ LoopFree
  /\ req[r].pc = "await"
  /\ \E v \in Vecs :
       LET e == Embedding(req[r].product_text, v)
       IN /\ embeddings_cache' = CacheInsert(embeddings_cache, req[r].product_text, e)
          /\ req' = [req EXCEPT ![r] = FspAfterEmbedding(req[r], e)]
  /\ provider_ok' = [provider_ok EXCEPT ![req[r].product_text] = @ + 1]
  /\ UNCHANGED <<call, provider, products, provider_calls, started>>

\* Variant: a failed call is repeated once before giving up.
GpeFailRetry(r) ==
  /\ LoopFree
  /\ req[r].pc = "await"
  /\ IF req[r].gpe_calls < 2
     THEN /\ req' = [req EXCEPT ![r].gpe_calls = @ + 1]
          /\ provider_calls' = [provider_calls EXCEPT ![req[r].product_text] = @ + 1]
     ELSE /\ req' = [req EXCEPT ![r] = [req[r] EXCEPT !.pc = "done",
                                          !.fsp_status = "raised",
                                          !.error = "EmbeddingUnavailable"]]
          /\ UNCHANGED provider_calls
  /\ UNCHANGED <<call, provider, products, embeddings_cache, provider_ok, started>>

\* Variant: an embedding failure ends the loop and the products embedded so
\* far are ranked and returned.
GpeFailPartial(r) ==
  /\ LoopFree
  /\ req[r].pc = "await"
  /\ req' = [req EXCEPT ![r] =
               IF req[r].input_embedding = NoEmbedding
               THEN [req[r] EXCEPT !.pc = "done", !.fsp_status = "raised",
                                   !.error = "EmbeddingUnavailable"]
               ELSE [req[r] EXCEPT
                       !.pc = "done", !.fsp_status = "returned", !.success = TRUE,
                       !.fsp_result =
                         RankProducts(SubSeq(req[r].all_products, 1,
                                             Len(req[r].product_embeddings)),
                                      req[r].input_embedding,
                                      req[r].product_embeddings,
                                      req[r].max_results, DefaultPriceWeight,
                                      DefaultSimilarityWeight)]]
  /\ UNCHANGED <<call, provider, products, embeddings_cache, provider_calls, provider_ok, started>>

\* lines 220-222: the provider call raised; the error goes up through
\* find_similar_products
GpeFail(r) ==
  /\ LoopFree
  /\ req[r].pc = "await"
  /\ req' = [req EXCEPT ![r] = FspRaised(req[r], "EmbeddingUnavailable")]
  /\ UNCHANGED <<call, provider, products, embeddings_cache, provider_calls, provider_ok, started>>

\* the request is cancelled while suspended at line 210: CancelledError is
\* thrown into the coroutine there and unwinds it
GpeCancel(r) ==
  /\ LoopFree
  /\ req[r].pc = "await"
  /\ req' = [req EXCEPT ![r] = [FspRaised(req[r], "Cancelled") EXCEPT !.success = FALSE]]
  /\ UNCHANGED <<call, provider, products, embeddings_cache, provider_calls, provider_ok, started>>

Next ==
  \E r \in Requests :
    \/ StartMatch(r)
    \/ StartLive(r)
    \/ StartCombined(r)
    \/ SearchRespond(r)
    \/ GpeHit(r)
    \/ GpeMiss(r)
    \/ GpeRespond(r)
    \/ GpeFail(r)
    \/ GpeCancel(r)

Spec == Init /\ [][Next]_vars

\* ------------------------------------------------- non-overlapping requests
\* The same program when no request starts while another one is under way.
NoneActive == \A r \in Requests : req[r].pc \in {"idle", "done"}

SeqNext ==
  \E r \in Requests :
    \/ NoneActive /\ StartMatch(r)
    \/ NoneActive /\ StartLive(r)
    \/ NoneActive /\ StartCombined(r)
    \/ SearchRespond(r)
    \/ GpeHit(r)
    \/ GpeMiss(r)
    \/ GpeRespond(r)
    \/ GpeFail(r)
    \/ GpeCancel(r)

SeqSpec == Init /\ [][SeqNext]_vars

\* ------------------------------------------------------------- scheduling
\* The event loop runs every coroutine that is ready to run: a request at
\* the head of get_product_embedding goes on to the cache lookup. When a
\* provider answers, and whether it does, is not the program's to decide.
FairSpec == Spec /\ \A r \in Requests : WF_vars(GpeHit(r) \/ GpeMiss(r))

\* ------------------------------------------- a provider that repeats itself
\* The same program with a provider that returns the same vector whenever it
\* is asked about the same text.
SameVectorProviders ==
  {f \in [Texts -> Vecs] : \A q \in FeatureInputs : f[create_features_text(q)] = <<3, 4>>}

SameInit ==
  /\ products \in Catalogs
  /\ embeddings_cache = <<>>
  /\ req = [r \in Requests |-> IdleReq]
  /\ provider_calls = [t \in Texts |-> 0]
  /\ provider_ok = [t \in Texts |-> 0]
  /\ started = 0
  /\ call = NoCall
  /\ provider \in SameVectorProviders

\* lines 215-218: the provider answered with its vector for the text
GpeRespondSame(r) ==
  /\ GpeRespond(r)
  /\ embeddings_cache'[req[r].product_text].vec = provider[req[r].product_text]

SameNext ==
  \E r \in Requests :
    \/ StartMatch(r)
    \/ StartLive(r)
    \/ StartCombined(r)
    \/ SearchRespond(r)
    \/ GpeHit(r)
    \/ GpeMiss(r)
    \/ GpeRespondSame(r)
    \/ GpeFail(r)
    \/ GpeCancel(r)

SameSpec == SameInit /\ [][SameNext]_vars

\* ------------------------------------------------ the ranking on its own
\* find_similar_products (lines 317-395) when every embedding call returns:
\* vectors maps each text to the vector get_product_embedding hands back
find_similar_products(input_features, max_results, category_filter, price_weight, similarity_weight, catalog, vectors) ==
  Assigned({
    IF all_products = <<>> THEN <<>>
    ELSE RankProducts(all_products,
                      Embedding(create_features_text(input_features),
                                vectors[create_features_text(input_features)]),
                      [i \in 1..Len(all_products) |->
                         Embedding(create_product_text(all_products[i]),
                                   vectors[create_product_text(all_products[i])])],
                      max_results, price_weight, similarity_weight)
    : all_products \in {FilterCategory(catalog, category_filter)}})

\* a second string of lights at the price of P1
P4 == [id |-> 4, name |-> "Glow 25ft", price |-> 30, image_url |-> "u4",
       category |-> "lighting", product_type |-> "string lights",
       brand |-> "Brightown", color |-> "warm white", size |-> "25 ft",
       material |-> None, style |-> None,
       key_features |-> <<>>,
       specifications |-> <<>>,
       description |-> ""]

MaxCatalogLen == 3
\* the catalogs of at most MaxCatalogLen products, each product listed once,
\* in every order
RankCatalogs ==
  {c \in UNION {[1..n -> {P1, P2, P3, P4}] : n \in 0..MaxCatalogLen} :
     \A i, j \in DOMAIN c : i # j => c[i].id # c[j].id}

RankTexts ==
  {create_features_text(F1)} \cup {create_product_text(p) : p \in {P1, P2, P3, P4}}
\* the answers of a provider that returns the same vector for the same text
Providers == [RankTexts -> Vecs]
\* max_results, category_filter, <<price_weight, similarity_weight>> of a caller
MaxResultsInputs == {-1, 0, 1, 2, 5}
CategoryInputs == {None, "LIGHTING", "fans"}
WeightInputs == {<<DefaultPriceWeight, DefaultSimilarityWeight>>, <<0, 100>>}

RankInit ==
  /\ products \in RankCatalogs
  /\ embeddings_cache = <<>>
  /\ req = [r \in Requests |-> IdleReq]
  /\ provider_calls = [t \in Texts |-> 0]
  /\ provider_ok = [t \in Texts |-> 0]
  /\ started = 0
  /\ call = NoCall
  /\ provider = AnyVector

\* one request for a ranking runs from its start to its return
CallFindSimilarProducts ==
  /\ call = NoCall
  /\ \E vectors \in Providers, max_results \in MaxResultsInputs,
        category_filter \in CategoryInputs, w \in WeightInputs :
       call' = [fn |-> "find_similar_products",
                provider |-> vectors, max_results |-> max_results,
                category_filter |-> category_filter,
                price_weight |-> w[1], similarity_weight |-> w[2],
                result |-> find_similar_products(F1, max_results, category_filter,
                                                 w[1], w[2], products, vectors)]
  /\ UNCHANGED <<provider, products, embeddings_cache, req, provider_calls, provider_ok, started>>

RankNext == CallFindSimilarProducts

RankSpec == RankInit /\ [][RankNext]_vars

\* ------------------------------------------------- the scorers on their own
\* feature sets with and without a brand, a color, a size, a specification
FuzzyFeatures ==
  {[F1 EXCEPT !.brand = brand, !.color = color, !.size = size,
              !.specifications = specifications] :
     brand \in {None, "Brightown"}, color \in {None, "warm white"},
     size \in {None, "50 ft"},
     specifications \in {<<>>, <<<<"Power Source", "plug in">>>>, <<<<"Theme", "no">>>>}}
  \cup {[F1 EXCEPT !.product_type = "Brightown String Lights", !.color = None]}

\* a listing that names the power source, a listing without a title
L5 == Listing("Plug in String Lights 50 ft", 1999, "$19.99", "http://shop/5", Absent, "Target", 5)
L6 == Listing(Absent, 999, "$9.99", "http://shop/6", Absent, "Ebay", 6)
\* a listing whose title is a brand and a product type
L7 == Listing("Brightown String Lights", 2499, "$24.99", "http://shop/7", Absent, "Amazon", 7)
FuzzyListings == {L1, L3, L4, L5, L6, L7}

\* matching criteria of a caller: a key that is missing is left to its default
FuzzyCriteria ==
  {NoCriteria,
   [brandMatching |-> FALSE],
   [titleMatching |-> FALSE],
   [titleMatching |-> FALSE, colorMatching |-> FALSE, sizeMatching |-> FALSE,
    specificationsMatching |-> FALSE],
   [titleMatching |-> FALSE, brandMatching |-> FALSE, colorMatching |-> FALSE,
    sizeMatching |-> FALSE, specificationsMatching |-> FALSE]}

ScoreInit ==
  /\ products = <<>>
  /\ embeddings_cache = <<>>
  /\ req = [r \in Requests |-> IdleReq]
  /\ provider_calls = [t \in Texts |-> 0]
  /\ provider_ok = [t \in Texts |-> 0]
  /\ started = 0
  /\ call = NoCall
  /\ provider = AnyVector

\* fuzzy_match_product is applied to a feature set, a listing and criteria
CallFuzzyMatchProduct ==
  /\ call = NoCall
  /\ \E extracted_features \in FuzzyFeatures, shopping_result \in FuzzyListings,
        matching_criteria \in FuzzyCriteria :
       call' = [fn |-> "fuzzy_match_product",
                extracted_features |-> extracted_features,
                shopping_result |-> shopping_result,
                matching_criteria |-> matching_criteria,
                result |-> fuzzy_match_product(extracted_features, shopping_result,
                                               matching_criteria)]
  /\ UNCHANGED <<provider, products, embeddings_cache, req, provider_calls, provider_ok, started>>

MaxPrices == 3
\* prices of the products of a comparison, and the comparison sets
PriceInputs == {10, 20, 25, 30, 40}
PriceLists == UNION {[1..n -> PriceInputs] : n \in 0..MaxPrices}

\* calculate_price_score is applied to the price of one product of the
\* comparison (lines 361-364), or to a price and no comparison at all
CallCalculatePriceScore ==
  /\ call = NoCall
  /\ \E all_prices \in PriceLists :
       \E product_price \in IF all_prices = <<>> THEN PriceInputs
                            ELSE {all_prices[i] : i \in 1..Len(all_prices)} :
         call' = [fn |-> "calculate_price_score",
                  product_price |-> product_price, all_prices |-> all_prices,
                  result |-> calculate_price_score(product_price, all_prices)]
  /\ UNCHANGED <<provider, products, embeddings_cache, req, provider_calls, provider_ok, started>>

\* features that name a product sold in packs
F5 == [brand |-> None, model |-> None, product_type |-> "LED bulbs",
       color |-> None, size |-> None, material |-> None,
       style |-> None, category |-> "lighting",
       key_features |-> <<>>, specifications |-> <<>>]

\* listings sold in packs, singly, by none, without a price and for nothing
L8 == Listing("Brightown String Lights 2-PACK warm white", NoNumber, "$29.98", "http://shop/8", Absent, "Amazon", 8)
L9 == Listing("LED bulbs 0-pack string lights", 500, "$5.00", "http://shop/9", Absent, "Ebay", 9)
L10 == Listing("Brightown LED String Lights 12 pack", 1800, "$18.00", "http://shop/10", Absent, "Target", 10)
L11 == Listing("String lights LED bulbs 4-pack", NoNumber, Absent, "http://shop/11", Absent, "Walmart", 11)
\* a pack given away: its price is 0.00
L12 == Listing("LED bulbs 6-pack", 0, "$0.00", "http://shop/12", Absent, "Target", 12)

PackFeatures == {F1, F5}
PackListings == {L4, L8, L9, L10, L11, L12}
PackAnswers == UNION {[1..n -> PackListings] : n \in 1..MaxListings}
PackMaxResults == {1, 10}

\* search_products from the answer of the provider on (lines 196-247)
CallSearchProducts ==
  /\ call = NoCall
  /\ \E features \in PackFeatures, shopping_results \in PackAnswers,
        max_results \in PackMaxResults :
       call' = [fn |-> "search_products",
                features |-> features,
                shopping_results |-> shopping_results,
                max_results |-> max_results,
                result |-> search_products(features, SearchResults(shopping_results),
                                           max_results, NoCriteria)]
  /\ UNCHANGED <<provider, products, embeddings_cache, req, provider_calls, provider_ok, started>>

\* get_price_comparison from the answer of the provider on (lines 404-435)
CallGetPriceComparison ==
  /\ call = NoCall
  /\ \E features \in PackFeatures, shopping_results \in PackAnswers :
       call' = [fn |-> "get_price_comparison",
                features |-> features,
                shopping_results |-> shopping_results,
                result |-> get_price_comparison(features, SearchResults(shopping_results))]
  /\ UNCHANGED <<provider, products, embeddings_cache, req, provider_calls, provider_ok, started>>

\* price ranges of a request: none, [20, 40] and [0, 40]
RangeInputs == {<<>>, <<20, 40>>, <<0, 40>>}
RangeMaxResults == {1, 10}
\* the requests of the live-price and of the combined-search callers
RangeRequests ==
  {NewLiveReq(F1, max_results, price_range, TRUE) :
     max_results \in RangeMaxResults, price_range \in RangeInputs}
  \cup {NewCombinedReq(F1, FALSE, TRUE, 5, max_results, None, price_range) :
          max_results \in RangeMaxResults, price_range \in RangeInputs}

\* get_live_prices and search_combined from the answer of the search provider
\* on (main.py lines 305-340 and 409-445)
CallLiveTail ==
  /\ call = NoCall
  /\ \E request \in RangeRequests, outcome \in RangeOutcomes :
       call' = [fn |-> "live", request |-> request, outcome |-> outcome,
                price_data |-> PriceData[request.features][outcome],
                result |-> LiveTail(request, outcome)]
  /\ UNCHANGED <<provider, products, embeddings_cache, req, provider_calls, provider_ok, started>>

\* an extraction that lets every answer of the provider through
AcceptAnyFeatures(features_json) ==
  [raised |-> FALSE,
   features |-> [F1 EXCEPT !.product_type = features_json.product_type,
                           !.category = features_json.category]]

\* ProductFeatures(**features_json): product_type and category are required
\* strings (models.py lines 12 and 17); a key that is missing or null raises
ProductFeaturesOf(features_json) ==
  IF \/ features_json.product_type \in {Absent, None}
     \/ features_json.category \in {Absent, None}
  THEN [raised |-> TRUE, features |-> None]
  ELSE [raised |-> FALSE,
        features |-> [F1 EXCEPT !.product_type = features_json.product_type,
                                !.category = features_json.category]]

\* any(term in product_type for term in terms)
AnyTermIn(terms, product_type) == \E term \in terms : IsSubstr(term, product_type)

\* the category inferred from the product type (lines 185-193)
FallbackCategory(product_type) ==
  IF AnyTermIn({"light", "lamp", "chandelier", "bulb"}, product_type) THEN "lighting"
  ELSE IF AnyTermIn({"chair", "table", "sofa", "desk", "bed"}, product_type) THEN "furniture"
  ELSE IF AnyTermIn({"tv", "phone", "computer", "laptop"}, product_type) THEN "electronics"
  ELSE "home goods"

\* _process_text_openai from the parsed answer on (lines 90-96)
process_text_openai(features_json) == ProductFeaturesOf(features_json)

\* _process_image_openai from the parsed answer on (lines 181-201): .lower()
\* of a null product_type raises
process_image_openai(features_json) ==
  IF features_json.category # Absent /\ Truthy(features_json.category)
  THEN ProductFeaturesOf(features_json)
  ELSE IF features_json.product_type = None THEN [raised |-> TRUE, features |-> None]
  ELSE ProductFeaturesOf(
         [features_json EXCEPT !.category =
            FallbackCategory(Lower(Get(features_json.product_type, "")))])

\* what the provider may answer to an extraction
ExtractionAnswers ==
  [product_type : {Absent, None, "", "string lights", "Desk Lamp", "office chair",
                   "laptop", "rug"},
   category : {Absent, None, "", "lighting"}]

\* features are extracted from a text or from an image
CallExtractFeatures ==
  /\ call = NoCall
  /\ \E source \in {"text", "image"}, features_json \in ExtractionAnswers :
       call' = [fn |-> "extract_features", source |-> source,
                features_json |-> features_json,
                result |-> IF source = "text" THEN process_text_openai(features_json)
                           ELSE process_image_openai(features_json)]
  /\ UNCHANGED <<provider, products, embeddings_cache, req, provider_calls, provider_ok, started>>

\* attribute sets whose specifications were inserted in either order and
\* whose key features come in either order
TextSpecifications ==
  {<<>>, <<<<"Power Source", "corded">>>>,
   <<<<"Power Source", "corded">>, <<"Light Color", "warm">>>>,
   <<<<"Light Color", "warm">>, <<"Power Source", "corded">>>>}
TextKeyFeatures == {<<>>, <<"dimmable", "outdoor">>, <<"outdoor", "dimmable">>}
TextFeatures ==
  {[F1 EXCEPT !.specifications = specifications, !.key_features = key_features,
              !.size = size] :
     specifications \in TextSpecifications, key_features \in TextKeyFeatures,
     size \in {None, "50ft"}}

\* create_features_text is applied to two attribute sets
CallCreateFeaturesText ==
  /\ call = NoCall
  /\ \E features \in TextFeatures, other \in TextFeatures :
       call' = [fn |-> "create_features_text",
                features |-> features, other |-> other,
                result |-> create_features_text(features),
                other_result |-> create_features_text(other)]
  /\ UNCHANGED <<provider, products, embeddings_cache, req, provider_calls, provider_ok, started>>

\* list(set(features.key_features + image_features.key_features)): the
\* elements once each, in an order the set chooses
KeyFeatureLists(text_features, image_features) ==
  IF image_features.key_features = <<>> THEN {text_features.key_features}
  ELSE LET both == text_features.key_features \o image_features.key_features
           elements == {both[i] : i \in 1..Len(both)}
       IN {order \in [1..Cardinality(elements) -> elements] :
             \A i, j \in 1..Cardinality(elements) : i # j => order[i] # order[j]}

\* the attribute sets of a text and of an image combined (main.py lines
\* 120-130, 215-225, 289-298, 378-387), for one order of the key features
MergeFeatures(text_features, image_features, key_features) ==
  [text_features EXCEPT
     !.color = IF Truthy(image_features.color) /\ ~Truthy(text_features.color)
               THEN image_features.color ELSE @,
     !.material = IF Truthy(image_features.material) /\ ~Truthy(text_features.material)
                  THEN image_features.material ELSE @,
     !.style = IF Truthy(image_features.style) /\ ~Truthy(text_features.style)
               THEN image_features.style ELSE @,
     !.key_features = key_features]

\* what the provider extracted from the text and from the image
TextExtractions ==
  {[F1 EXCEPT !.brand = brand, !.color = color, !.material = material,
              !.key_features = key_features] :
     brand \in {None, "Brightown"}, color \in {None, "warm white"},
     material \in {None, "copper"},
     key_features \in {<<>>, <<"dimmable">>, <<"dimmable", "outdoor">>}}
ImageExtractions ==
  {[F1 EXCEPT !.brand = brand, !.color = color, !.material = material,
              !.key_features = key_features] :
     brand \in {None, "Govee"}, color \in {None, "white"},
     material \in {None, "plastic"},
     key_features \in {<<>>, <<"outdoor">>, <<"outdoor", "waterproof">>}}

\* a request with a text and an image has both attribute sets combined
CallMergeFeatures ==
  /\ call = NoCall
  /\ \E text_features \in TextExtractions, image_features \in ImageExtractions :
       \E key_features \in KeyFeatureLists(text_features, image_features) :
         call' = [fn |-> "merge", text_features |-> text_features,
                  image_features |-> image_features,
                  result |-> MergeFeatures(text_features, image_features, key_features)]
  /\ UNCHANGED <<provider, products, embeddings_cache, req, provider_calls, provider_ok, started>>

\* HTTPException(status_code=400, detail=...) of the handlers
NoInputError ==
  [status_code |-> 400, detail |-> "Either text description or image must be provided"]

\* the endpoints that take a JSON body and those that take a form
JsonEndpoints == {"/api/analyze", "/api/match", "/api/live-prices", "/api/search-combined"}
FormEndpoints ==
  {"/api/analyze-form", "/api/match-form", "/api/live-prices-form",
   "/api/search-combined-form"}

\* a JSON handler up to its first provider call (main.py lines 102-107 and
\* 148-158, 197-202 and 253-264, 272-277 and 342-355, 362-367 and 447-462):
\* the HTTPException is raised inside the try block, whose except clause
\* answers with an ordinary response that has success=False
JsonHandler(text_description, image_base64) ==
  IF ~Truthy(text_description) /\ ~Truthy(image_base64)
  THEN [status_code |-> 200, success |-> FALSE, error |-> NoInputError, extracts |-> FALSE]
  ELSE [status_code |-> 200, success |-> TRUE, error |-> None, extracts |-> TRUE]

\* a form handler (main.py lines 166-190, 475-506, 521-555, 568-596): its
\* except clause turns every exception into HTTPException(status_code=500);
\* an uploaded file is encoded and handed to the JSON handler
FormHandler(text_description, image) ==
  IF ~Truthy(text_description) /\ image = None
  THEN [status_code |-> 500, success |-> FALSE, error |-> NoInputError, extracts |-> FALSE]
  ELSE JsonHandler(text_description, image)

\* what a caller may send as a text and as an image
TextInputs == {None, "", "string lights"}
ImageInputs == {None, "", "aGVsbG8="}

\* a request arrives at an endpoint
CallEndpoint ==
  /\ call = NoCall
  /\ \E endpoint \in JsonEndpoints \cup FormEndpoints,
        text_description \in TextInputs, image \in ImageInputs :
       call' = [fn |-> "endpoint", endpoint |-> endpoint,
                text_description |-> text_description, image |-> image,
                result |-> IF endpoint \in JsonEndpoints
                           THEN JsonHandler(text_description, image)
                           ELSE FormHandler(text_description, image)]
  /\ UNCHANGED <<provider, products, embeddings_cache, req, provider_calls, provider_ok, started>>

ScoreNext ==
  \/ CallFuzzyMatchProduct
  \/ CallCalculatePriceScore
  \/ CallSearchProducts
  \/ CallGetPriceComparison
  \/ CallLiveTail
  \/ CallCreateFeaturesText
  \/ CallMergeFeatures
  \/ CallExtractFeatures
  \/ CallEndpoint

ScoreSpec == ScoreInit /\ [][ScoreNext]_vars

\* ---------------------------------------------------------------- claims
\* the text of the get_product_embedding call request r is in
CallText(r) == req[r].product_text
\* request r takes a step of its own
Moves(r) == req'[r] # req[r]
ProductTexts == {create_product_text(p) : p \in {P1, P2, P3}}

C1_Tagged ==
  /\ \A t \in DOMAIN embeddings_cache :
       embeddings_cache[t].text = t /\ embeddings_cache[t].vec \in Vecs
  /\ \A r \in Requests :
       /\ req[r].ret # NoEmbedding =>
            req[r].ret.text = req[r].ret_text /\ req[r].ret.vec \in Vecs
       /\ req[r].input_embedding # NoEmbedding =>
            req[r].input_embedding.text = create_features_text(req[r].features)
       /\ \A i \in 1..Len(req[r].product_embeddings) :
            req[r].product_embeddings[i].text
              = create_product_text(req[r].all_products[i])
C1_LastWrite ==
  \A r \in Requests :
    (req[r].pc = "await" /\ Moves(r) /\ req'[r].error = None) =>
      /\ CallText(r) \in DOMAIN embeddings_cache'
      /\ embeddings_cache'[CallText(r)] = req'[r].ret
      /\ req'[r].ret_text = CallText(r)
\* C1: under any interleaving of get_product_embedding calls, every vector
\* returned for a text and every cache entry under a text is a vector the
\* provider produced for that text; a call that misses stores its own vector
\* when the provider answers, so of concurrent misses the last write wins.
C1_VectorBelongsToText == []C1_Tagged /\ [][C1_LastWrite]_vars
\* two misses on one text were both answered, with different vectors, and
\* the cache holds the later one
C1_Witness ==
  \E t \in Texts : \E r \in Requests :
    /\ provider_ok[t] = 2
    /\ t \in DOMAIN embeddings_cache
    /\ req[r].ret_text = t
    /\ req[r].ret # NoEmbedding
    /\ req[r].ret # embeddings_cache[t]

C2_PerCall ==
  \A r \in Requests :
    /\ req[r].gpe_calls <= 1
    /\ req[r].pc = "await" => req[r].gpe_calls = 1
    /\ req[r].ret # NoEmbedding =>
         /\ req[r].ret_text \in DOMAIN embeddings_cache
         /\ embeddings_cache[req[r].ret_text] = req[r].ret
C2_MissStep ==
  \A r \in Requests :
    /\ (req[r].pc = "call" /\ Moves(r) /\ CallText(r) \notin DOMAIN embeddings_cache) =>
         /\ req'[r].pc = "await"
         /\ provider_calls' = [provider_calls EXCEPT ![CallText(r)] = @ + 1]
    /\ (req[r].pc = "await" /\ Moves(r)) =>
         /\ provider_calls' = provider_calls
         /\ req'[r].gpe_calls = 1
         /\ req'[r].error = None =>
              /\ embeddings_cache'[CallText(r)] = req'[r].ret
              /\ req'[r].ret_text = CallText(r)
\* C2 as stated: a miss invokes the provider exactly once, stores and returns
\* the vector, and in a sequence of non-overlapping calls the provider is
\* invoked at most once per distinct text.
C2_Original ==
  /\ C2_PerCall
  /\ \A t \in Texts : provider_calls[t] <= 1
\* C2 (amended): a call that misses invokes the provider exactly once; on
\* success the cache maps the text to the vector the call returns; in a
\* sequence of non-overlapping calls the provider answers at most once per
\* distinct text, and it is invoked again for a text only after every
\* earlier invocation for that text failed or was cancelled.
C2_OncePerTextOnSuccess ==
  /\ [](C2_PerCall /\ \A t \in Texts : provider_ok[t] <= 1)
  /\ [][C2_MissStep]_vars
  /\ [][\A t \in Texts : provider_calls'[t] > provider_calls[t] => provider_ok[t] = 0]_vars
\* the provider failed on a text, a later call asked again and got a vector
C2_Witness ==
  \E t \in Texts :
    /\ provider_calls[t] = 2
    /\ provider_ok[t] = 1
    /\ t \in DOMAIN embeddings_cache
    /\ \E r \in Requests : req[r].ret_text = t /\ req[r].gpe_calls = 1

C3_HitStep ==
  \A r \in Requests :
    (req[r].pc = "call" /\ Moves(r) /\ CallText(r) \in DOMAIN embeddings_cache) =>
      /\ embeddings_cache' = embeddings_cache
      /\ provider_calls' = provider_calls
      /\ req'[r].pc # "await"
      /\ req'[r].gpe_calls = 0
      /\ req'[r].ret_text = CallText(r)
      /\ req'[r].ret = embeddings_cache[CallText(r)]
\* C3: a call for a cached text returns the stored vector, makes no provider
\* call and leaves the cache unchanged.
C3_HitIsFrameFree == [][C3_HitStep]_vars
\* a call returned a vector without invoking the provider
C3_Witness ==
  \E r \in Requests :
    /\ req[r].ret # NoEmbedding
    /\ req[r].gpe_calls = 0
    /\ provider_ok[req[r].ret_text] = 1

C4_FailStep ==
  \A r \in Requests :
    (req[r].pc = "await" /\ Moves(r) /\ req'[r].error = "EmbeddingUnavailable") =>
      /\ embeddings_cache' = embeddings_cache
      /\ provider_calls' = provider_calls
      /\ provider_ok' = provider_ok
      /\ req'[r].gpe_calls = 1
      /\ req'[r].fsp_status = "raised"
      /\ req'[r].pc = "done"
C4_NoRetryInFlight ==
  \A r \in Requests :
    (req[r].pc = "await" /\ req'[r].pc = "await") =>
      provider_calls'[CallText(r)] = provider_calls[CallText(r)]
      \/ \E r2 \in Requests \ {r} : req[r2].pc = "call" /\ Moves(r2)
\* C4: when the provider call of get_product_embedding fails, the call raises
\* to its caller, the provider is not invoked a second time and the failing
\* call adds no entry to the cache.
C4_FailureLeavesCache == [][C4_FailStep /\ C4_NoRetryInFlight]_vars
\* a call failed on a text that is still not cached
C4_Witness ==
  \E r \in Requests :
    /\ req[r].pc = "done"
    /\ req[r].error = "EmbeddingUnavailable"
    /\ \E t \in Texts : provider_calls[t] = 1 /\ provider_ok[t] = 0
                         /\ t \notin DOMAIN embeddings_cache

C5_Complete ==
  \A t \in DOMAIN embeddings_cache :
    /\ embeddings_cache[t].text = t
    /\ Len(embeddings_cache[t].vec) = 2
C5_AbortStep ==
  \A r \in Requests :
    (req[r].pc = "await" /\ Moves(r) /\ req'[r].error # None) =>
      embeddings_cache' = embeddings_cache
\* C5: a ranking request cancelled or failing with a provider call in flight
\* leaves the cache consistent: every key maps to a complete vector of the
\* provider for that key, the entries inserted before stay, and no entry is
\* ever visible half written.
C5_CancelKeepsCacheConsistent == []C5_Complete /\ [][C5_AbortStep]_vars
\* a request was cancelled after it had inserted an entry, which is still there
C5_Witness ==
  \E r \in Requests :
    /\ req[r].error = "Cancelled"
    /\ req[r].ret # NoEmbedding
    /\ req[r].gpe_calls = 1
    /\ req[r].ret_text \in DOMAIN embeddings_cache

\* C6: no operation removes a cache entry; the set of cached keys never
\* shrinks, whether requests succeed, fail or are cancelled.
C6_CacheNeverShrinks ==
  [][DOMAIN embeddings_cache \subseteq DOMAIN embeddings_cache']_vars
\* a failed and a cancelled request, and the entry stored before them is kept
C6_Witness ==
  /\ DOMAIN embeddings_cache # {}
  /\ \E r \in Requests : req[r].error = "Cancelled"
  /\ \E r \in Requests : req[r].error = "EmbeddingUnavailable"

IsSortedDesc(seq, key) ==
  \A i \in 1..(Len(seq) - 1) : seq[i][key] >= seq[i + 1][key]
C8_Scored(m) ==
  /\ {"similarity_score", "price_score", "combined_score"} \subseteq DOMAIN m
  /\ m.similarity_score \in 0..Scale
  /\ m.price_score \in 0..Scale
  /\ m.combined_score = m.similarity_score * DefaultSimilarityWeight
                          + m.price_score * DefaultPriceWeight
C8_Whole(q) ==
  LET candidates == FilterCategory(products, q.category_filter)
      result == q.fsp_result
  IN /\ q.fsp_status = "returned" =>
          /\ q.error = None
          /\ Len(result) = Min(q.max_results, Len(candidates))
          /\ \A i \in 1..Len(result) :
               /\ C8_Scored(result[i])
               /\ \E j \in 1..Len(candidates) : candidates[j].id = result[i].id
          /\ \A i, j \in 1..Len(result) : i # j => result[i].id # result[j].id
          /\ IsSortedDesc(result, "combined_score")
     /\ q.fsp_status = "raised" => result = <<>> /\ q.error # None
\* C8: find_similar_products never returns part of a ranking: it returns a
\* list of min(max_results, n) of the n filtered candidates, each with its
\* three scores, sorted by combined score, or it raises and returns nothing;
\* a failure at the k-th candidate never yields a ranking of the first k-1.
C8_NoPartialRanking ==
  \A r \in Requests : req[r].fsp_status # "none" => C8_Whole(req[r])
\* one call raised at a candidate after an earlier candidate was embedded
C8_Witness ==
  \E r \in Requests :
    /\ req[r].fsp_status = "raised"
    /\ req[r].error = "EmbeddingUnavailable"
    /\ req[r].ret_text \in ProductTexts
    /\ req[r].gpe_calls = 1

\* C7: every provider call of a request is bounded by a timeout: a request
\* that waits for the embedding provider or for the search provider
\* eventually gets its answer, with a provider-timeout error when the
\* provider never responds; it does not wait forever.
C7_ProviderCallBounded ==
  \A r \in Requests : (req[r].pc \in {"await", "search"}) ~> (req[r].pc = "done")

\* scoring listing l for features f raises
ScoringRaises ==
  [f \in FeatureInputs |->
     [l \in {L1, L2, L3, L4} |-> fuzzy_match_product(f, l, NoCriteria).raised]]
\* the live search of request q failed: the provider raised, or scoring one
\* of the listings it sent raised
C9_LiveFailed(q) ==
  \/ q.live_outcome.kind = "raised"
  \/ \E i \in 1..Len(q.live_outcome.shopping_results) :
       ScoringRaises[q.features][q.live_outcome.shopping_results[i]]
\* C9: the live-listing path never returns part of a ranking: when the search
\* provider fails or scoring a fetched listing raises, the request fails with
\* an error; it returns neither a list without that listing nor an empty
\* result with success.
C9_LiveNeverPartial ==
  \A r \in Requests :
    (req[r].pc = "done" /\ C9_LiveFailed(req[r])) =>
      /\ req[r].success = FALSE
      /\ req[r].live_products = <<>>
      /\ req[r].live_error # None

\* C10: an embedding failure is fatal for the similarity path only: a live
\* request makes no embedding call, and every request that asks for live
\* results gets them, also a combined search whose local part met the
\* embedding failure.
C10_LiveUnaffectedByEmbeddingFailure ==
  \A r \in Requests :
    /\ req[r].kind = "live" =>
         /\ req[r].pc \notin {"call", "await"}
         /\ req[r].gpe_calls = 0 /\ req[r].ret = NoEmbedding
    /\ (req[r].pc = "done" /\ req[r].include_live
          /\ req[r].error = "EmbeddingUnavailable") =>
         /\ req[r].live_outcome.kind # "none"
         /\ req[r].live_products
              = LiveTail(req[r], req[r].live_outcome).live_products

\* the place of the product with this id in the catalog
PositionOf(catalog, id) == CHOOSE i \in 1..Len(catalog) : catalog[i].id = id
\* C11: for every order of the catalog the list find_similar_products
\* returns is in non-increasing order of combined_score, and two candidates
\* with equal combined_score keep the relative order they have in the catalog.
C11_SortedStable ==
  call.fn = "find_similar_products" =>
    /\ IsSortedDesc(call.result, "combined_score")
    /\ \A i, j \in 1..Len(call.result) :
         (i < j /\ call.result[i].combined_score = call.result[j].combined_score) =>
           PositionOf(products, call.result[i].id) < PositionOf(products, call.result[j].id)
\* three candidates came back, two of them with equal scores behind the third,
\* which stands behind them in the catalog
C11_Witness ==
  /\ call.fn = "find_similar_products"
  /\ Len(call.result) = 3
  /\ call.result[2].combined_score = call.result[3].combined_score
  /\ call.result[1].combined_score > call.result[2].combined_score
  /\ PositionOf(products, call.result[1].id) = 3

\* the whole sorted list of the call: what it returns when nothing is cut off
C12_Sorted ==
  find_similar_products(F1, Len(products), call.category_filter, call.price_weight,
                        call.similarity_weight, products, call.provider)
\* C12: for every max_results of the caller find_similar_products returns at
\* most max_results candidates: the first min(max_results, n) elements of the
\* sorted list of the n candidates that passed the category filter.
C12_AtMostMaxResults ==
  call.fn = "find_similar_products" =>
    /\ Len(call.result) <= Max(call.max_results, 0)
    /\ call.result
         = SubSeq(C12_Sorted, 1,
                  Min(call.max_results,
                      Len(FilterCategory(products, call.category_filter))))

\* the products of the catalog in the category the caller asked for
C13_InCategory ==
  SelectSeq(products, LAMBDA p : Lower(p.category) = Lower(call.category_filter))
\* C13: with a category filter every returned candidate's category equals
\* the filter case-insensitively, no candidate of another category appears,
\* and the price scores are those of a comparison among the prices of the
\* candidates of that category only.
C13_CategoryFilter ==
  (call.fn = "find_similar_products" /\ Truthy(call.category_filter)) =>
    \A i \in 1..Len(call.result) :
      /\ Lower(call.result[i].category) = Lower(call.category_filter)
      /\ call.result[i].price_score
           = calculate_price_score(call.result[i].price, Prices(C13_InCategory))
\* a filtered call on a catalog with a product of another category whose price
\* would have changed a price score, and with a candidate whose category is
\* written in another case than the filter
C13_Witness ==
  /\ call.fn = "find_similar_products"
  /\ Truthy(call.category_filter)
  /\ Len(C13_InCategory) < Len(products)
  /\ \E i \in 1..Len(call.result) :
       call.result[i].price_score
         # calculate_price_score(call.result[i].price, Prices(products))
  /\ \E i \in 1..Len(call.result) :
       call.result[i].category \notin {call.category_filter, Lower(call.category_filter)}

\* the search query of request q
C14_Query(q) == PriceData[q.features][NoOutcome].search_query
\* a request starts its ranking on a catalog that is empty, or empty after the
\* category filter: the ranking returns [] at once and no provider is asked
C14_EmptyCatalogStep ==
  \A r \in Requests :
    (/\ req[r].pc \in {"idle", "done"}
     /\ Moves(r)
     /\ req'[r].kind = "match" \/ (req'[r].kind = "combined" /\ req'[r].include_local)
     /\ FilterCategory(products, req'[r].category_filter) = <<>>) =>
      /\ req'[r].fsp_status = "returned"
      /\ req'[r].fsp_result = <<>>
      /\ req'[r].error = None
      /\ req'[r].gpe_calls = 0
      /\ req'[r].pc \notin {"call", "await"}
      /\ provider_calls' = provider_calls
      /\ req'[r].kind = "match" => req'[r].pc = "done" /\ req'[r].success
\* the search provider is never asked with an empty query; an empty query and
\* an answer without shopping results both give an empty list and no error
C14_EmptySearch ==
  \A r \in Requests :
    /\ req[r].pc = "search" => C14_Query(req[r]) # ""
    /\ (req[r].pc = "done" /\ req[r].include_live /\ req[r].error = None
          /\ C14_Query(req[r]) = "") =>
         /\ req[r].live_outcome.kind = "none"
         /\ req[r].live_products = <<>>
         /\ req[r].success /\ req[r].live_error = None
    /\ (req[r].pc = "done" /\ req[r].live_outcome \in {SearchResults(<<>>), SearchNoKey}) =>
         /\ req[r].live_products = <<>>
         /\ req[r].success /\ req[r].live_error = None
\* C14: degenerate inputs give an empty result and no error: the ranking on
\* an empty or emptied catalog returns [] without an embedding call, the live
\* search returns [] for an empty query without a call of the search provider
\* and for an answer of the provider without shopping results.
C14_DegenerateInputsEmpty == []C14_EmptySearch /\ [][C14_EmptyCatalogStep]_vars
\* a combined search found the catalog empty and the provider sent an empty
\* list; a live search had no query to send
C14_Witness ==
  /\ \E r \in Requests :
       /\ req[r].pc = "done" /\ req[r].kind = "combined"
       /\ req[r].fsp_status = "returned" /\ req[r].fsp_result = <<>>
       /\ req[r].live_outcome = SearchResults(<<>>)
       /\ req[r].success
  /\ \E r \in Requests :
       /\ req[r].pc = "done" /\ req[r].kind = "live"
       /\ C14_Query(req[r]) = ""
       /\ req[r].live_outcome.kind = "none"
       /\ req[r].success
  /\ TotalProviderCalls = 0

\* C15: with a provider that returns the same vector for the same text, the
\* list a request gets from find_similar_products is the list the same call
\* returns when it runs alone, whatever other requests run interleaved with
\* it on the same embedding cache.
C15_IndependentOfOthers ==
  \A r \in Requests :
    req[r].fsp_status = "returned" =>
      req[r].fsp_result
        = find_similar_products(req[r].features, req[r].max_results,
                                req[r].category_filter, DefaultPriceWeight,
                                DefaultSimilarityWeight, products, provider)
\* a request got its ranking, its last embedding out of the cache, where the
\* other request, still under way, had put it
C15_Witness ==
  \E r1, r2 \in Requests :
    /\ r1 # r2
    /\ req[r1].fsp_status = "returned"
    /\ req[r1].fsp_result # <<>>
    /\ req[r1].gpe_calls = 0
    /\ req[r2].pc \in {"call", "await"}
    /\ req[r2].product_embeddings # <<>>

\* a sub-score of the call, <<weight, num, den>>: it counts when its flag is
\* on, the listing has a title and its attribute is there
C16_Sub(key, present, part) ==
  IF /\ CriterionOn(call.matching_criteria, key)
     /\ call.shopping_result.title # Absent
     /\ present
  THEN part ELSE <<0, 0, 1>>
C16_Subs ==
  LET f == call.extracted_features
      l == call.shopping_result
      c == call.matching_criteria
  IN <<C16_Sub("titleMatching", TRUE, <<WeightTitle, TitlePart(f, l, c)[2], TitlePart(f, l, c)[3]>>),
       C16_Sub("brandMatching", Truthy(f.brand), <<WeightBrand, BrandPart(f, l, c)[2], 1>>),
       C16_Sub("colorMatching", Truthy(f.color), <<WeightColor, ColorPart(f, l, c)[2], 1>>),
       C16_Sub("sizeMatching", Truthy(f.size), <<WeightSize, SizePart(f, l, c)[2], 1>>),
       C16_Sub("specificationsMatching", CountedSpecs(f.specifications) # {},
               <<WeightSpecs, SpecsPart(f, l, c)[2], SpecsPart(f, l, c)[3]>>)>>
\* C16: fuzzy_match_product returns the sum of weight * sub-score over the
\* applicable sub-scores divided by the sum of the weights applied; a
\* sub-score whose attribute is missing adds neither score nor weight; the
\* result lies in [0, 1] and is 0 when no sub-score is applicable.
C16_WeightedMean ==
  (call.fn = "fuzzy_match_product" /\ ~call.result.raised) =>
    LET subs == C16_Subs
        W == subs[1][1] + subs[2][1] + subs[3][1] + subs[4][1] + subs[5][1]
        D == subs[1][3] * subs[5][3]
        S == subs[1][1] * subs[1][2] * subs[5][3]
             + (subs[2][1] * subs[2][2] + subs[3][1] * subs[3][2]
                + subs[4][1] * subs[4][2]) * D
             + subs[5][1] * subs[5][2] * subs[1][3]
    IN /\ call.result.den > 0
       /\ 0 <= call.result.num /\ call.result.num <= call.result.den
       /\ IF W = 0 THEN call.result.num = 0
          ELSE call.result.num * D * W = S * call.result.den
\* a feature set without a brand met a listing with a title: the score is
\* that of the title and the color alone, neither 0 nor 1
C16_Witness ==
  /\ call.fn = "fuzzy_match_product"
  /\ ~call.result.raised
  /\ call.matching_criteria = NoCriteria
  /\ ~Truthy(call.extracted_features.brand)
  /\ Truthy(call.extracted_features.color)
  /\ call.shopping_result.title # Absent
  /\ 0 < call.result.num /\ call.result.num < call.result.den

\* two results of fuzzy_match_product are the same outcome
C17_Same(a, b) == a.raised = b.raised /\ a.num * b.den = b.num * a.den
\* the feature set without the attributes whose flag is off
C17_Strip(f, c) ==
  [f EXCEPT !.brand = IF CriterionOn(c, "brandMatching") THEN @ ELSE None,
            !.color = IF CriterionOn(c, "colorMatching") THEN @ ELSE None,
            !.size = IF CriterionOn(c, "sizeMatching") THEN @ ELSE None,
            !.specifications = IF CriterionOn(c, "specificationsMatching") THEN @ ELSE <<>>]
\* the criteria with every missing flag written down as true
C17_Complete(c) ==
  [key \in {"titleMatching", "brandMatching", "colorMatching", "sizeMatching",
            "specificationsMatching"} |->
     IF key \in DOMAIN c THEN c[key] ELSE TRUE]
\* a flag set to false takes its category out, as if the attribute were not
\* there; with the title flag off the product type has no say; a missing flag
\* is a flag set to true
C17_Flags ==
  LET f == call.extracted_features
      l == call.shopping_result
      c == call.matching_criteria
  IN /\ C17_Same(call.result,
                 fuzzy_match_product(C17_Strip(f, c), l,
                                     [titleMatching |-> CriterionOn(c, "titleMatching")]))
     /\ ~CriterionOn(c, "titleMatching") =>
          C17_Same(call.result, fuzzy_match_product([f EXCEPT !.product_type = ""], l, c))
     /\ C17_Same(call.result, fuzzy_match_product(f, l, C17_Complete(c)))
\* the call has brandMatching off and nothing else, a brand and a title
C17_BrandOff ==
  /\ call.fn = "fuzzy_match_product"
  /\ call.matching_criteria = [brandMatching |-> FALSE]
  /\ Truthy(call.extracted_features.brand)
  /\ call.shopping_result.title \notin {Absent, None}
\* the score of the same call with every category on
C17_AllOn ==
  fuzzy_match_product(call.extracted_features, call.shopping_result, NoCriteria)
\* C17 as stated: a flag set to false removes its category, a missing flag
\* counts as enabled, and disabling brandMatching for a feature set with a
\* brand changes the score relative to the all-enabled case.
C17_Original ==
  call.fn = "fuzzy_match_product" =>
    /\ C17_Flags
    /\ C17_BrandOff => ~C17_Same(call.result, C17_AllOn)
\* C17 (amended): a flag set to false removes its category (neither score nor
\* weight) even when the attribute is present, a missing flag counts as
\* enabled, and disabling brandMatching for a feature set with a brand
\* changes the score relative to the all-enabled case exactly when the score
\* of the remaining categories differs from the brand sub-score.
C17_FlagsRemoveCategory ==
  call.fn = "fuzzy_match_product" =>
    /\ C17_Flags
    /\ C17_BrandOff =>
         LET brand_score == BrandPart(call.extracted_features, call.shopping_result,
                                      NoCriteria)[2]
         IN ~C17_Same(call.result, C17_AllOn)
              <=> (call.result.num # brand_score * call.result.den)
\* the brand flag is off for a feature set whose brand is in the title, and
\* the score went down from the all-enabled one
C17_Witness ==
  /\ C17_BrandOff
  /\ call.result.num * C17_AllOn.den < C17_AllOn.num * call.result.den
  /\ call.result.num > 0

\* C18: within a non-empty comparison set the price score does not rise with
\* the price: a member that costs no more than another scores no less, the
\* minimum price has the highest score of the set, the maximum price the
\* lowest, and every score lies in [0, 1].
C18_PriceScoreMonotone ==
  (call.fn = "calculate_price_score" /\ call.all_prices # <<>>) =>
    /\ \A i \in 1..Len(call.all_prices) :
         LET q == call.all_prices[i]
             score_q == calculate_price_score(q, call.all_prices)
         IN /\ call.product_price <= q => call.result >= score_q
            /\ q <= call.product_price => score_q >= call.result
            /\ call.product_price = SeqMin(call.all_prices) => call.result >= score_q
            /\ call.product_price = SeqMax(call.all_prices) => call.result <= score_q
            /\ 0 <= score_q /\ score_q <= Scale
    /\ 0 <= call.result /\ call.result <= Scale
\* the middle one of three different prices: its score is strictly between
\* the score of the cheapest and the score of the dearest
C18_Witness ==
  /\ call.fn = "calculate_price_score"
  /\ Len(call.all_prices) = 3
  /\ SeqMin(call.all_prices) < call.product_price
  /\ call.product_price < SeqMax(call.all_prices)
  /\ calculate_price_score(SeqMax(call.all_prices), call.all_prices) < call.result
  /\ call.result < calculate_price_score(SeqMin(call.all_prices), call.all_prices)

\* C19: when all prices of the comparison set are equal calculate_price_score
\* returns 1.0 for every member, and for an empty comparison set it returns
\* the neutral default 0.5.
C19_EqualPricesAndEmptySet ==
  call.fn = "calculate_price_score" =>
    /\ call.all_prices = <<>> => call.result * 2 = Scale
    /\ (/\ call.all_prices # <<>>
        /\ \A i, j \in 1..Len(call.all_prices) : call.all_prices[i] = call.all_prices[j]) =>
         call.result = Scale
\* a member of a comparison of three equal prices
C19_Witness ==
  /\ call.fn = "calculate_price_score"
  /\ Len(call.all_prices) = 3
  /\ \A i \in 1..3 : call.all_prices[i] = call.product_price
  /\ call.result = Scale

\* the numbers n of the "<n>-pack" patterns of a title, in either case
C20_PackNumbers(title) ==
  {ParseNat(SubSeq(title, p[1], p[2])) :
     p \in {q \in (1..Len(title)) \X (1..Len(title)) :
              /\ q[1] <= q[2]
              /\ \A k \in q[1]..q[2] : IsDigit(Char(title, k))
              /\ q[1] = 1 \/ ~IsDigit(Char(title, q[1] - 1))
              /\ q[2] + 5 <= Len(title)
              /\ Lower(SubSeq(title, q[2] + 1, q[2] + 5)) = "-pack"}}

\* C20: every listing search_products reports carries the price of its
\* listing unchanged; when it has a price and its title holds "<n>-pack"
\* in either case with n > 0, its pack_quantity is n and its unit_price is
\* the price divided by n; when the title holds no such pattern, or n = 0,
\* it has no unit price.
C20_PackQuantityAndUnitPrice ==
  call.fn = "search_products" =>
    \A k \in 1..Len(call.result) :
      LET item == call.result[k]
          packs == C20_PackNumbers(item.title)
      IN /\ \E i \in 1..Len(call.shopping_results) :
              /\ call.shopping_results[i].title = item.title
              /\ item.price = extract_price(call.shopping_results[i])
         /\ \A n \in packs :
              (n > 0 /\ item.price # NoNumber) =>
                /\ item.pack_quantity = n
                /\ item.unit_price # NoNumber
                /\ item.unit_price * n = item.price
         /\ (packs = {} \/ packs = {0}) => item.unit_price = NoNumber

RECURSIVE C21_Scored(_, _)
\* the listings of an answer that score above the cutoff, with their score
\* and their price and nothing else
C21_Scored(features, shopping_results) ==
  IF shopping_results = <<>> THEN <<>>
  ELSE LET l == shopping_results[1]
           m == fuzzy_match_product(features, l, NoCriteria)
       IN (IF ~m.raised /\ m.num * 10 > 3 * m.den
           THEN <<[position |-> l.position, price |-> extract_price(l),
                   match_num |-> m.num, match_den |-> m.den]>>
           ELSE <<>>)
          \o C21_Scored(features, Tail(shopping_results))

\* the ranking of an answer made with no knowledge of packs
C21_Ranked == PySlice(SortByMatch(C21_Scored(call.features, call.shopping_results)), PriceComparisonQuota)

RECURSIVE C21_Prices(_)
\* the original prices of the ranked listings that have one
C21_Prices(ranked) ==
  IF ranked = <<>> THEN <<>>
  ELSE (IF ranked[1].price # NoNumber THEN <<ranked[1].price>> ELSE <<>>)
       \o C21_Prices(Tail(ranked))

\* C21: the listings get_price_comparison returns, their order, their
\* match scores and their prices are those of a ranking made from the
\* titles' scores and the original prices alone, with or without a pack
\* quantity in a title, and the price statistics are those of the original
\* prices of the returned listings, never of their unit prices.
C21_UnitPriceInformational ==
  call.fn = "get_price_comparison" =>
    LET returned == call.result.products
        prices == C21_Prices(C21_Ranked)
        stats == call.result.price_stats
    IN /\ Len(returned) = Len(C21_Ranked)
       /\ \A k \in 1..Len(returned) :
            /\ returned[k].position = C21_Ranked[k].position
            /\ returned[k].price = C21_Ranked[k].price
            /\ returned[k].match_num = C21_Ranked[k].match_num
            /\ returned[k].match_den = C21_Ranked[k].match_den
       /\ stats.empty = (prices = <<>>)
       /\ ~stats.empty =>
            /\ stats.min_price = SeqMin(prices)
            /\ stats.max_price = SeqMax(prices)
            /\ stats.avg_price = SumSeq(prices) \div Len(prices)
            /\ stats.median_price = SortAsc(prices)[(Len(prices) \div 2) + 1]

\* a pack of twelve at 24.00 (2.00 apiece) is returned next to a listing
\* with no unit price, and the lowest price of the statistics is not 2.00
C21_Witness ==
  /\ call.fn = "get_price_comparison"
  /\ \E k \in 1..Len(call.result.products) :
       /\ call.result.products[k].pack_quantity = 12
       /\ call.result.products[k].unit_price = 200
       /\ call.result.products[k].price = 2400
  /\ \E k \in 1..Len(call.result.products) :
       /\ call.result.products[k].unit_price = NoNumber
       /\ call.result.products[k].price = 500
  /\ ~call.result.price_stats.empty
  /\ call.result.price_stats.min_price = 500

\* the score of the i-th fetched listing of the call
C22_Score(i) == fuzzy_match_product(call.features, call.shopping_results[i], NoCriteria)

\* the fetched listings that pass the cutoff
C22_Passing ==
  {i \in 1..Len(call.shopping_results) :
     ~C22_Score(i).raised /\ C22_Score(i).num * 10 > 3 * C22_Score(i).den}

\* C22: every listing search_products returns scores above 0.3, the list is
\* in descending order of match score, and it holds the max_results
\* highest-scoring of all the fetched listings that pass the cutoff: as many
\* as pass when fewer than max_results do, and no passing listing left out
\* scores higher than one that is returned.
C22_FilterBeforeTruncation ==
  call.fn = "search_products" =>
    LET result == call.result
    IN /\ Len(result) = Min(call.max_results, Cardinality(C22_Passing))
       /\ \A k \in 1..Len(result) :
            /\ result[k].match_num * 10 > 3 * result[k].match_den
            /\ \E i \in C22_Passing :
                 /\ call.shopping_results[i].position = result[k].position
                 /\ C22_Score(i).num = result[k].match_num
                 /\ C22_Score(i).den = result[k].match_den
            /\ k > 1 => result[k - 1].match_num * result[k].match_den
                          >= result[k].match_num * result[k - 1].match_den
            /\ Cardinality({i \in C22_Passing :
                              C22_Score(i).num * result[k].match_den
                                > result[k].match_num * C22_Score(i).den}) < k

\* one slot, a fetched listing below the cutoff ahead of one above it: the
\* slot goes to the listing that passes
C22_Witness ==
  /\ call.fn = "search_products"
  /\ call.max_results = 1
  /\ Len(call.shopping_results) = 2
  /\ 1 \notin C22_Passing
  /\ 2 \in C22_Passing
  /\ Len(call.result) = 1
  /\ call.result[1].position = call.shopping_results[2].position

RECURSIVE C23_InRange(_, _)
\* the scored listings whose price p has min <= p <= max, 0 included
C23_InRange(scored, price_range) ==
  IF scored = <<>> THEN <<>>
  ELSE (IF /\ scored[1].price # NoNumber
           /\ price_range[1] * Cents <= scored[1].price
           /\ scored[1].price <= price_range[2] * Cents
        THEN <<scored[1]>> ELSE <<>>)
       \o C23_InRange(Tail(scored), price_range)

\* C23: when a live-price or combined search is given a price range
\* [min, max], the live products of a successful answer are the first
\* max_results, in ranked order, of the scored listings whose price p has
\* min <= p <= max, the listings at p = min, p = max and p = 0 included.
C23_PriceRangeInclusive ==
  (call.fn = "live" /\ call.result.success /\ Len(call.request.price_range) = 2) =>
    call.result.live_products
      = PySlice(C23_InRange(call.price_data.products, call.request.price_range),
                call.request.max_live_results)

\* a mapping given as its sequence of items, whatever the insertion order
C24_Mapping(specifications) == {specifications[i] : i \in 1..Len(specifications)}

\* two attribute sets with the same field values: specifications the same
\* mapping, key_features the same sequence
C24_SameFields(a, b) ==
  /\ \A f \in {"brand", "model", "product_type", "color", "size", "material",
               "style", "category", "key_features"} : a[f] = b[f]
  /\ Len(a.specifications) = Len(b.specifications)
  /\ C24_Mapping(a.specifications) = C24_Mapping(b.specifications)

\* C24: two attribute sets with identical field values, the specifications
\* compared as mappings whatever their insertion order and the key features
\* as sequences, are projected by create_features_text to the same string.
C24_SameFieldsSameText ==
  (call.fn = "create_features_text" /\ C24_SameFields(call.features, call.other)) =>
    call.result = call.other_result

\* the optional fields of an attribute set that hold one value
C25_OptionalFields == {"brand", "model", "color", "size", "material", "style"}

\* the elements of a list
C25_Elements(list) == {list[i] : i \in 1..Len(list)}

\* C25: when the attribute sets of a text and of an image are combined,
\* every optional field of the result holds the value of the text when that
\* is not empty and the value of the image otherwise, and the key features
\* of the result are those of both lists, each once.
C25_FillIfEmpty ==
  call.fn = "merge" =>
    /\ \A f \in C25_OptionalFields :
         call.result[f] = IF Truthy(call.text_features[f]) THEN call.text_features[f]
                          ELSE call.image_features[f]
    /\ C25_Elements(call.result.key_features)
         = C25_Elements(call.text_features.key_features)
           \cup C25_Elements(call.image_features.key_features)
    /\ Cardinality(C25_Elements(call.result.key_features)) = Len(call.result.key_features)

\* C26: an extraction that does not raise yields an attribute set whose
\* product_type and category are both there (a string, neither missing nor
\* null); an image whose answer has a product type and no category gets the
\* fallback category; an answer that still lacks one of the two is raised
\* as an error and yields no attribute set.
C26_RequiredAttributes ==
  call.fn = "extract_features" =>
    LET json == call.features_json
        result == call.result
        no_category == json.category \in {Absent, None, ""}
    IN /\ ~result.raised =>
            /\ result.features.product_type \notin {Absent, None}
            /\ result.features.category \notin {Absent, None}
       /\ (call.source = "image" /\ no_category /\ json.product_type \notin {Absent, None}) =>
            /\ ~result.raised
            /\ result.features.category
                 \in {"lighting", "furniture", "electronics", "home goods"}
       /\ json.product_type \in {Absent, None} => result.raised
       /\ (call.source = "text" /\ json.category \in {Absent, None}) => result.raised
       /\ result.raised => result.features = None

\* an image whose answer names a desk lamp and no category is passed on as
\* lighting
C26_Witness ==
  /\ call.fn = "extract_features"
  /\ call.source = "image"
  /\ call.features_json.product_type = "Desk Lamp"
  /\ call.features_json.category = Absent
  /\ ~call.result.raised
  /\ call.result.features.category = "lighting"

\* the three scores of a scored candidate
C27_Scores == {"similarity_score", "price_score", "combined_score"}

\* the candidates of a ranking carry the scores and the field values of the
\* catalog records they were made from, and the catalog records carry none
C27_FreshRecords ==
  /\ \A i \in 1..Len(products) : DOMAIN products[i] \cap C27_Scores = {}
  /\ \A r \in Requests : \A k \in 1..Len(req[r].fsp_result) :
       /\ C27_Scores \subseteq DOMAIN req[r].fsp_result[k]
       /\ \E i \in 1..Len(products) :
            \A f \in DOMAIN products[i] : req[r].fsp_result[k][f] = products[i][f]

\* C27: no step of a find_similar_products call, with or without a category
\* filter, returning or raising, changes the catalog: it holds the same
\* products in the same order with the same field values; the scored
\* candidates are records of their own and no score is written into a
\* catalog record.
C27_CatalogReadOnly == [][products' = products]_vars /\ []C27_FreshRecords

\* one call returned a ranking of catalog products and another call raised
C27_Witness ==
  /\ Len(products) = 2
  /\ \E r \in Requests :
       /\ req[r].fsp_status = "returned"
       /\ Len(req[r].fsp_result) > 0
       /\ req[r].category_filter # None
  /\ \E r \in Requests : req[r].fsp_status = "raised"

\* the call of the example: product type "string lights", brand
\* "Brightown", color "warm white", no size, no specifications, every
\* criterion on, the title "Brightown 50ft Warm White LED String Lights"
C28_Example ==
  /\ call.fn = "fuzzy_match_product"
  /\ call.extracted_features.product_type = "string lights"
  /\ call.extracted_features.brand = "Brightown"
  /\ call.extracted_features.color = "warm white"
  /\ call.extracted_features.size = None
  /\ call.extracted_features.specifications = <<>>
  /\ call.matching_criteria = NoCriteria
  /\ call.shopping_result.title = "Brightown 50ft Warm White LED String Lights"

\* C28: with the default weights and every criterion on, fuzzy_match_product
\* scores the example above 0.7.
C28_ExampleAbovePoint7 ==
  C28_Example => /\ ~call.result.raised
                 /\ call.result.num * 10 > 7 * call.result.den

\* the example is scored 2740/3640, which is 0.7527...
C28_Witness ==
  /\ C28_Example
  /\ call.result.num = 2740
  /\ call.result.den = 3640

\* C29: a request that brings neither a text nor an image is answered, on a
\* JSON endpoint and on a form endpoint alike, with the HTTP 400 error
\* "Either text description or image must be provided", and no feature
\* extraction (no provider call) is made for it.
C29_NoInputIs400 ==
  (/\ call.fn = "endpoint"
   /\ call.text_description \in {None, ""}
   /\ call.image = None) =>
    /\ call.result.status_code = 400
    /\ call.result.error = NoInputError
    /\ ~call.result.extracts

\* the prices of the live products of an answer
C30_ReturnedPrices(live_products) ==
  {live_products[k].price : k \in {i \in 1..Len(live_products) :
                                     live_products[i].price # NoNumber}}

\* C30: in a successful live-price or combined-search answer that carries
\* price statistics, min_price and max_price are the smallest and the
\* largest price of the live products listed in that same answer, also
\* after the price-range filter and the truncation to max_results.
C30_StatsOfReturnedProducts ==
  (call.fn = "live" /\ call.result.success /\ ~call.result.price_stats.empty) =>
    LET prices == C30_ReturnedPrices(call.result.live_products)
    IN /\ prices # {}
       /\ call.result.price_stats.min_price \in prices
       /\ call.result.price_stats.max_price \in prices
       /\ \A p \in prices : /\ call.result.price_stats.min_price <= p
                            /\ p <= call.result.price_stats.max_price

====
